---- MODULE Spec2Model ----
(***************************************************************************)
(* Model of the garment-composition pipeline of the AI Fitting Room:       *)
(* the generateVirtualTryOn coroutine of the useGeminiApi hook, the        *)
(* capability calls it issues, and the handleGenerate entry of the App;    *)
(* and of the size-fit operations of the same hook: analyzeBody,           *)
(* recommendSize and generateSizeFitTryOn.                                 *)
(*                                                                         *)
(* Texts are sequences of tokens: a token is a word or the whitespace      *)
(* token " ".  An image is the record of its encoded data and media type.  *)
(***************************************************************************)
EXTENDS Integers, Sequences, FiniteSets, TLC

\* ------------------------------------------------------------------ bounds
\* Largest number of garments of one invocation.
MaxGarments == 3

\* Largest number of garments of an invocation whose descriptions are
\* classified.
MaxDescribed == 2

\* Largest number of times the classifier is applied on its own.
MaxRuns == 3

\* Largest width and height, in pixels, of the small subjects the
\* aspect-ratio bucket is resolved for.
MaxSide == 35

\* Largest number of file selections and drops of a behaviour.
MaxSelections == 2

\* Largest number of operations the App starts in a behaviour.
MaxStarted == 4

\* ------------------------------------------------------------ value domains
\* An optional value is the empty sequence (null) or a one-element sequence.
Null == <<>>
Some(x) == <<x>>
None == "none"

\* Texts the capability may answer an analyzeText call with: no text, only
\* whitespace, text wrapped in whitespace, a single word, words with an
\* inner space.
ResponseTexts ==
  { <<>>, <<" ">>, <<" ", "dress", " ">>, <<"Shirt">>, <<"silk", " ", "dress">> }

\* Parts of a synthesis response: text parts and inline images.
TextPart == [kind |-> "text", mimeType |-> "text/plain", data |-> 0]
ImagePart(k) == [kind |-> "inlineData", mimeType |-> "image/png", data |-> k]

\* Synthesis responses: empty, text only, image only, text before an
\* image, two images, image before text.
SynthResponses ==
  { <<>>, <<TextPart>>, <<ImagePart(1)>>, <<TextPart, ImagePart(2)>>,
    <<ImagePart(2), ImagePart(1)>>, <<ImagePart(1), TextPart>> }

\* The subject images a caller may hold (UploadedImage).
Subjects ==
  { [id |-> "subject", base64 |-> [subject |-> 1], mimeType |-> "image/jpeg",
     width |-> 1920, height |-> 1080],
    [id |-> "subject", base64 |-> [subject |-> 2], mimeType |-> "image/png",
     width |-> 800, height |-> 800] }

\* Widths and heights of the subjects the aspect-ratio bucket is resolved
\* for: every small one, and those of common photographs.
Sides == 0..MaxSide \cup {800, 1080, 1920}

SizedSubjects ==
  { [id |-> "subject", base64 |-> [subject |-> <<w, h>>], mimeType |-> "image/jpeg",
     width |-> w, height |-> h] : w \in Sides, h \in Sides }

\* The garment ingested as the k-th upload (Garment); ids are unique.
GarmentOf(k) ==
  [id |-> k, base64 |-> [garment |-> k], mimeType |-> "image/jpeg"]

\* Garment lists a caller may hold: n garments, in either order of their ids.
GarmentLists ==
  UNION { { [i \in 1..n |-> GarmentOf(i)], [i \in 1..n |-> GarmentOf(n + 1 - i)] }
          : n \in 0..MaxGarments }

\* Texts the capability may describe a garment with: no text, whitespace,
\* a sentence, upper case, plurals and compounds of vocabulary terms, a
\* hyphenated word.
ClassifierTexts ==
  { <<>>, <<" ">>,
    <<"a", " ", "black", " ", "silk", " ", "dress">>,
    <<"Evening", " ", "GOWN">>,
    <<"sundresses">>,
    <<"gold", " ", "Necklace">>,
    <<"shoes">>,
    <<"leather", " ", "boots">>,
    <<"miniskirts">>,
    <<"t", "-", "shirt">>,
    <<"straw", " ", "hat">>,
    <<"Shirt">> }

\* Garment lists of the invocations whose descriptions are classified.
DescribedLists == { [i \in 1..n |-> GarmentOf(i)] : n \in 1..MaxDescribed }

\* ----------------------------------------------------------- pure helpers
\* fileToGenerativePart
fileToGenerativePart(base64, mimeType) ==
  [kind |-> "inlineData", data |-> base64, mimeType |-> mimeType]

\* String.prototype.trim on a token text: whitespace stripped at both ends.
RECURSIVE TrimStart(_)
TrimStart(t) ==
  IF t = <<>> THEN <<>>
  ELSE IF Head(t) = " " THEN TrimStart(Tail(t)) ELSE t

RECURSIVE TrimEnd(_)
TrimEnd(t) ==
  IF t = <<>> THEN <<>>
  ELSE IF t[Len(t)] = " " THEN TrimEnd(SubSeq(t, 1, Len(t) - 1)) ELSE t

Trim(t) == TrimEnd(TrimStart(t))

\* Variant: the text is taken untrimmed.
DescriptionOf_Untrimmed(text) == IF text # <<>> THEN text ELSE <<"garment">>

\* response.text ? response.text.trim() : "garment"
DescriptionOf(text) == IF text # <<>> THEN Trim(text) ELSE <<"garment">>

\* Variant: the count is tested before the flag.
Strategy_CountFirst(garments, sameGarment) ==
  IF Len(garments) = 1 THEN "SingleVisualOnly"
  ELSE IF sameGarment THEN "Consolidated"
  ELSE "ParallelIndividual"

\* Variant: no visual-only branch, a single garment is analysed like several.
Strategy_NoSingle(garments, sameGarment) ==
  IF sameGarment THEN "Consolidated" ELSE "ParallelIndividual"

\* The analysis mode chosen by the if / else-if / else of generateVirtualTryOn.
Strategy(garments, sameGarment) ==
  IF sameGarment THEN "Consolidated"
  ELSE IF Len(garments) = 1 THEN "SingleVisualOnly"
  ELSE "ParallelIndividual"

\* The progress message each branch emits on entering the analysis.
AnalysisMessage(strat) ==
  CASE strat = "Consolidated" -> "Analyzing garment structure (Consolidated)..."
    [] strat = "SingleVisualOnly" -> "Processing garment..."
    [] OTHER -> "Analyzing and isolating garments (Parallel)..."

PromptPart(name) == [kind |-> "text", data |-> name, mimeType |-> "text/plain"]

\* Variant: only the first garment image is sent.
ConsolidatedRequest_FirstImage(garments) ==
  [model |-> "gemini-3-flash-preview",
   parts |-> [i \in 1..(IF Len(garments) > 0 THEN 1 ELSE 0) |->
                fileToGenerativePart(garments[i].base64, garments[i].mimeType)]
             \o <<PromptPart("consolidated")>>]

\* The single request of the consolidated analysis: every garment image, in
\* the order of initialGarments, then the consolidation prompt.
ConsolidatedRequest(garments) ==
  [model |-> "gemini-3-flash-preview",
   parts |-> [i \in 1..Len(garments) |->
                fileToGenerativePart(garments[i].base64, garments[i].mimeType)]
             \o <<PromptPart("consolidated")>>]

\* The request of one branch of the parallel analysis: the garment's image
\* and the per-garment prompt.
IndividualRequest(garment) ==
  [model |-> "gemini-3-flash-preview",
   parts |-> <<fileToGenerativePart(garment.base64, garment.mimeType),
               PromptPart("individual")>>]

PendingCall(req) == [req |-> req, st |-> "pending", text |-> <<>>]

\* Variant: the calls are issued one after the other, only the first at once.
FanOut_FirstOnly(garments) ==
  [i \in 1..(IF Len(garments) > 0 THEN 1 ELSE 0) |->
     PendingCall(IndividualRequest(garments[i]))]

\* initialGarments.map(async garment => ...): every callback runs up to its
\* await, so one call per garment is outstanding when map returns.
FanOut(garments) ==
  [i \in 1..Len(garments) |-> PendingCall(IndividualRequest(garments[i]))]

\* The value the async callback of garment i resolves to.
CallbackValue(garments, calls, i) ==
  [id |-> garments[i].id, description |-> DescriptionOf(calls[i].text)]

\* Variant: the first result is taken whatever its id.
FindIndex_AnyId(descriptions, id) == IF Len(descriptions) > 0 THEN 1 ELSE 0

\* descriptions.find(d => d.id === garment.id): index of the first match, 0
\* when there is none.
FindIndex(descriptions, id) ==
  IF \E j \in 1..Len(descriptions) : descriptions[j].id = id
  THEN CHOOSE j \in 1..Len(descriptions) :
         /\ descriptions[j].id = id
         /\ \A k \in 1..(j - 1) : descriptions[k].id # id
  ELSE 0

WithDescription(garment, description) ==
  [id |-> garment.id, base64 |-> garment.base64, mimeType |-> garment.mimeType,
   description |-> description]

\* initialGarments.map(garment => ({...garment, description: descObj ? ... : ""}))
MatchDescriptions(garments, descriptions) ==
  [i \in 1..Len(garments) |->
     LET j == FindIndex(descriptions, garments[i].id)
     IN WithDescription(garments[i],
                        IF j # 0 THEN descriptions[j].description ELSE <<>>)]

\* initialGarments.map(g => ({...g, description}))
SameDescription(garments, description) ==
  [i \in 1..Len(garments) |-> WithDescription(garments[i], description)]

\* isolatedGarments.map(g => g.description).filter(Boolean).join(', ')
RECURSIVE JoinDescriptions(_)
JoinDescriptions(ds) ==
  IF ds = <<>> THEN <<>>
  ELSE IF Head(ds) = <<>> THEN JoinDescriptions(Tail(ds))
  ELSE LET rest == JoinDescriptions(Tail(ds))
       IN IF rest = <<>> THEN Head(ds) ELSE Head(ds) \o <<",", " ">> \o rest

\* Variant: the descriptions are joined whatever the flag.
GarmentDescriptions_AlwaysJoined(isolated, sameGarment) ==
  JoinDescriptions([i \in 1..Len(isolated) |-> isolated[i].description])

\* The text the classifier and the prompt use.
GarmentDescriptions(isolated, sameGarment) ==
  IF sameGarment /\ Len(isolated) > 0 THEN isolated[1].description
  ELSE JoinDescriptions([i \in 1..Len(isolated) |-> isolated[i].description])

\* -------------------------------------------------------------- classifier
\* The characters of each word of the lexicon: the vocabulary terms of the
\* classifier, the words of the sample texts, and the separators.
Spell(w) ==
  CASE w = "dress" -> <<"d", "r", "e", "s", "s">>
    [] w = "gown" -> <<"g", "o", "w", "n">>
    [] w = "frock" -> <<"f", "r", "o", "c", "k">>
    [] w = "jumpsuit" -> <<"j", "u", "m", "p", "s", "u", "i", "t">>
    [] w = "romper" -> <<"r", "o", "m", "p", "e", "r">>
    [] w = "suit" -> <<"s", "u", "i", "t">>
    [] w = "maxi" -> <<"m", "a", "x", "i">>
    [] w = "mini" -> <<"m", "i", "n", "i">>
    [] w = "midi" -> <<"m", "i", "d", "i">>
    [] w = "necklace" -> <<"n", "e", "c", "k", "l", "a", "c", "e">>
    [] w = "pendant" -> <<"p", "e", "n", "d", "a", "n", "t">>
    [] w = "choker" -> <<"c", "h", "o", "k", "e", "r">>
    [] w = "chain" -> <<"c", "h", "a", "i", "n">>
    [] w = "jewel" -> <<"j", "e", "w", "e", "l">>
    [] w = "beads" -> <<"b", "e", "a", "d", "s">>
    [] w = "pearls" -> <<"p", "e", "a", "r", "l", "s">>
    [] w = "strand" -> <<"s", "t", "r", "a", "n", "d">>
    [] w = "neckwear" -> <<"n", "e", "c", "k", "w", "e", "a", "r">>
    [] w = "shoe" -> <<"s", "h", "o", "e">>
    [] w = "boots" -> <<"b", "o", "o", "t", "s">>
    [] w = "heels" -> <<"h", "e", "e", "l", "s">>
    [] w = "sandals" -> <<"s", "a", "n", "d", "a", "l", "s">>
    [] w = "sneakers" -> <<"s", "n", "e", "a", "k", "e", "r", "s">>
    [] w = "flats" -> <<"f", "l", "a", "t", "s">>
    [] w = "pumps" -> <<"p", "u", "m", "p", "s">>
    [] w = "footwear" -> <<"f", "o", "o", "t", "w", "e", "a", "r">>
    [] w = "stiletto" -> <<"s", "t", "i", "l", "e", "t", "t", "o">>
    [] w = "wedge" -> <<"w", "e", "d", "g", "e">>
    [] w = "skirt" -> <<"s", "k", "i", "r", "t">>
    [] w = "pants" -> <<"p", "a", "n", "t", "s">>
    [] w = "trousers" -> <<"t", "r", "o", "u", "s", "e", "r", "s">>
    [] w = "jeans" -> <<"j", "e", "a", "n", "s">>
    [] w = "leggings" -> <<"l", "e", "g", "g", "i", "n", "g", "s">>
    [] w = "shorts" -> <<"s", "h", "o", "r", "t", "s">>
    [] w = "top" -> <<"t", "o", "p">>
    [] w = "shirt" -> <<"s", "h", "i", "r", "t">>
    [] w = "blouse" -> <<"b", "l", "o", "u", "s", "e">>
    [] w = "t-shirt" -> <<"t", "-", "s", "h", "i", "r", "t">>
    [] w = "cardigan" -> <<"c", "a", "r", "d", "i", "g", "a", "n">>
    [] w = "jacket" -> <<"j", "a", "c", "k", "e", "t">>
    [] w = "bodysuit" -> <<"b", "o", "d", "y", "s", "u", "i", "t">>
    [] w = "sweater" -> <<"s", "w", "e", "a", "t", "e", "r">>
    [] w = "vest" -> <<"v", "e", "s", "t">>
    [] w = "hat" -> <<"h", "a", "t">>
    [] w = "cap" -> <<"c", "a", "p">>
    [] w = "beanie" -> <<"b", "e", "a", "n", "i", "e">>
    [] w = "fedora" -> <<"f", "e", "d", "o", "r", "a">>
    [] w = "beret" -> <<"b", "e", "r", "e", "t">>
    [] w = "a" -> <<"a">>
    [] w = "black" -> <<"b", "l", "a", "c", "k">>
    [] w = "silk" -> <<"s", "i", "l", "k">>
    [] w = "Evening" -> <<"E", "v", "e", "n", "i", "n", "g">>
    [] w = "GOWN" -> <<"G", "O", "W", "N">>
    [] w = "sundresses" -> <<"s", "u", "n", "d", "r", "e", "s", "s", "e", "s">>
    [] w = "gold" -> <<"g", "o", "l", "d">>
    [] w = "Necklace" -> <<"N", "e", "c", "k", "l", "a", "c", "e">>
    [] w = "shoes" -> <<"s", "h", "o", "e", "s">>
    [] w = "miniskirts" -> <<"m", "i", "n", "i", "s", "k", "i", "r", "t", "s">>
    [] w = "t" -> <<"t">>
    [] w = "straw" -> <<"s", "t", "r", "a", "w">>
    [] w = "leather" -> <<"l", "e", "a", "t", "h", "e", "r">>
    [] w = "Shirt" -> <<"S", "h", "i", "r", "t">>
    [] w = "garment" -> <<"g", "a", "r", "m", "e", "n", "t">>
    [] w = " " -> <<" ">>
    [] w = "," -> <<",">>
    [] w = "-" -> <<"-">>

\* The alternatives of the six regular expressions (lines 132-137).
FullBodyTerms ==
  { "dress", "gown", "frock", "jumpsuit", "romper", "suit", "maxi", "mini",
    "midi" }

NecklaceTerms ==
  { "necklace", "pendant", "choker", "chain", "jewel", "beads", "pearls",
    "strand", "neckwear" }

ShoeTerms ==
  { "shoe", "boots", "heels", "sandals", "sneakers", "flats", "pumps",
    "footwear", "stiletto", "wedge" }

BottomTerms ==
  { "skirt", "pants", "trousers", "jeans", "leggings", "shorts" }

TopTerms ==
  { "top", "shirt", "blouse", "t-shirt", "cardigan", "jacket", "bodysuit",
    "sweater", "vest" }

HatTerms ==
  { "hat", "cap", "beanie", "fedora", "beret" }


\* The characters of a token text: those of its tokens, one after the other.
RECURSIVE Chars(_)
Chars(text) ==
  IF text = <<>> THEN <<>> ELSE Spell(Head(text)) \o Chars(Tail(text))

UpperCaseLetters ==
  <<"A", "B", "C", "D", "E", "F", "G", "H", "I", "J", "K", "L", "M",
    "N", "O", "P", "Q", "R", "S", "T", "U", "V", "W", "X", "Y", "Z">>

LowerCaseLetters ==
  <<"a", "b", "c", "d", "e", "f", "g", "h", "i", "j", "k", "l", "m",
    "n", "o", "p", "q", "r", "s", "t", "u", "v", "w", "x", "y", "z">>

\* String.prototype.toLowerCase, character by character.
toLowerCase(s) ==
  [k \in 1..Len(s) |->
     IF \E j \in 1..26 : UpperCaseLetters[j] = s[k]
     THEN LowerCaseLetters[CHOOSE j \in 1..26 : UpperCaseLetters[j] = s[k]]
     ELSE s[k]]

\* \w of a regular expression: a letter, a digit or the underscore.
WordChar(c) ==
  \/ \E j \in 1..26 : c = UpperCaseLetters[j] \/ c = LowerCaseLetters[j]
  \/ c \in {"0", "1", "2", "3", "4", "5", "6", "7", "8", "9", "_"}

\* \b before position i of s: exactly one of s[i-1], s[i] is a word
\* character, the ends of s counting as none.
WordBoundary(s, i) ==
  (i > 1 /\ WordChar(s[i - 1])) # (i <= Len(s) /\ WordChar(s[i]))

\* The characters of term stand in s from position i on.
OccursAt(s, term, i) ==
  /\ i + Len(term) - 1 <= Len(s)
  /\ \A k \in 1..Len(term) : s[i + k - 1] = term[k]

\* Variant: the terms are searched without word boundaries.
TestWholeWord_NoBoundary(terms, s) ==
  \E term \in { Spell(t) : t \in terms } :
    \E i \in 1..Len(s) : OccursAt(s, term, i)

\* /\b(t1|t2|...)\b/.test(s)
TestWholeWord(terms, s) ==
  \E term \in { Spell(t) : t \in terms } :
    \E i \in 1..Len(s) :
      /\ OccursAt(s, term, i)
      /\ WordBoundary(s, i)
      /\ WordBoundary(s, i + Len(term))

\* /t1|t2|.../.test(s)
TestAnywhere(terms, s) ==
  \E term \in { Spell(t) : t \in terms } :
    \E i \in 1..Len(s) : OccursAt(s, term, i)

\* The flags before the classifier has run.
NoFlags ==
  [hasDress |-> FALSE, hasNecklace |-> FALSE, hasShoes |-> FALSE,
   hasNewBottoms |-> FALSE, hasNewTop |-> FALSE, hasHat |-> FALSE]

\* Variant: the top is tested against its own terms only.
Tests_TopByOwnTerms(descLower) ==
  LET hasDress == TestWholeWord(FullBodyTerms, descLower)
  IN [hasDress |-> hasDress,
      hasNecklace |-> TestWholeWord(NecklaceTerms, descLower),
      hasShoes |-> TestWholeWord(ShoeTerms, descLower),
      hasNewBottoms |-> hasDress \/ TestAnywhere(BottomTerms, descLower),
      hasNewTop |-> TestWholeWord(TopTerms, descLower),
      hasHat |-> TestWholeWord(HatTerms, descLower)]

\* Lines 132-137: the six tests on the lower-cased text.
Tests(descLower) ==
  LET hasDress == TestWholeWord(FullBodyTerms, descLower)
  IN [hasDress |-> hasDress,
      hasNecklace |-> TestWholeWord(NecklaceTerms, descLower),
      hasShoes |-> TestWholeWord(ShoeTerms, descLower),
      hasNewBottoms |-> hasDress \/ TestAnywhere(BottomTerms, descLower),
      hasNewTop |-> hasDress \/ TestWholeWord(TopTerms, descLower),
      hasHat |-> TestWholeWord(HatTerms, descLower)]

\* Lines 131-137: the styling flags of a description text; its characters
\* and descLower are computed once.
Classifier(text) ==
  CHOOSE f \in { Tests(descLower) :
                   descLower \in { toLowerCase(s) : s \in {Chars(text)} } } :
    TRUE

Abs(x) == IF x < 0 THEN -x ELSE x

\* Math.abs(width / height - a / b) < 0.1 with height > 0, as double
\* arithmetic computes it.  It is the exact comparison
\* 10 * |b * width - a * height| < b * height except where the exact
\* difference is one tenth: the computed difference is then below the double
\* 0.1 when width / height is under a / b, and for 9 / 16 and 3 / 4 also
\* when it is over a / b.
WithinTolerance(width, height, a, b) ==
  LET d == 10 * Abs(b * width - a * height)
  IN \/ d < b * height
     \/ /\ d = b * height
        /\ (b * width < a * height \/ a < b)

\* Variant: 3:4 is tested before 9:16.
AspectRatio_ThreeFourFirst(width, height) ==
  IF width # 0 /\ height # 0
  THEN IF WithinTolerance(width, height, 16, 9) THEN "16:9"
       ELSE IF WithinTolerance(width, height, 3, 4) THEN "3:4"
       ELSE IF WithinTolerance(width, height, 9, 16) THEN "9:16"
       ELSE IF WithinTolerance(width, height, 4, 3) THEN "4:3"
       ELSE "1:1"
  ELSE "1:1"

\* The aspect-ratio bucket of the subject.
AspectRatio(width, height) ==
  IF width # 0 /\ height # 0
  THEN IF WithinTolerance(width, height, 16, 9) THEN "16:9"
       ELSE IF WithinTolerance(width, height, 9, 16) THEN "9:16"
       ELSE IF WithinTolerance(width, height, 4, 3) THEN "4:3"
       ELSE IF WithinTolerance(width, height, 3, 4) THEN "3:4"
       ELSE "1:1"
  ELSE "1:1"

\* Variant: the marker does not follow the flag.
YesNo_AlwaysNo(flag) == "NO"

YesNo(flag) == IF flag THEN "YES" ELSE "NO"

\* Variant: the clause for the top follows the flag of the bottoms.
Prompt_TopByBottoms(aspectRatio, descriptions, styling) ==
  [aspectRatio |-> aspectRatio,
   neckwear |->
     <<[when |-> "IF the user uploaded a NECKLACE",
        marker |-> YesNo(styling.hasNecklace),
        directive |-> "ACTION: The NECKLACE must be visible on the skin."],
       [when |-> "IF the user uploaded a NECKLACE",
        marker |-> YesNo(styling.hasNecklace),
        directive |-> "FORBIDDEN: Do NOT place any matching dress scarves/ties on the neck."],
       [when |-> "IF the user uploaded a NECKLACE",
        marker |-> YesNo(styling.hasNecklace),
        directive |-> "REQUIRED STYLING: You MUST move the scarf/tie to the ARMS."],
       [when |-> "ELSE",
        marker |-> "No necklace",
        directive |-> "Style scarves/ties naturally around the neck."]>>,
   headwear |->
     <<[when |-> "IF the user uploaded a HAT",
        marker |-> YesNo(styling.hasHat),
        directive |-> "ACTION: Replace any existing headwear."]>>,
   garmentDescriptions |-> descriptions,
   top |-> IF styling.hasNewBottoms THEN "REPLACE the subject's top."
           ELSE "KEEP the subject's top.",
   bottoms |-> IF styling.hasNewBottoms THEN "REPLACE the subject's bottoms."
               ELSE "KEEP the subject's bottoms.",
   outfit |-> IF styling.hasDress
              THEN "Ensure the garment is worn as a full-body outfit, completely replacing the original outfit. Do not render as a vest."
              ELSE "Ensure seamless integration."]

\* Lines 155-195, the parts of the prompt that depend on the invocation or on
\* a condition: the aspect ratio; the NECKWEAR LOGIC and HEADWEAR LOGIC
\* items, each directive with the condition the template puts it under and
\* the marker interpolated into that condition; the description (left out
\* when empty); the clauses for top, bottoms and outfit.
Prompt(aspectRatio, descriptions, styling) ==
  [aspectRatio |-> aspectRatio,
   neckwear |->
     <<[when |-> "IF the user uploaded a NECKLACE",
        marker |-> YesNo(styling.hasNecklace),
        directive |-> "ACTION: The NECKLACE must be visible on the skin."],
       [when |-> "IF the user uploaded a NECKLACE",
        marker |-> YesNo(styling.hasNecklace),
        directive |-> "FORBIDDEN: Do NOT place any matching dress scarves/ties on the neck."],
       [when |-> "IF the user uploaded a NECKLACE",
        marker |-> YesNo(styling.hasNecklace),
        directive |-> "REQUIRED STYLING: You MUST move the scarf/tie to the ARMS."],
       [when |-> "ELSE",
        marker |-> "No necklace",
        directive |-> "Style scarves/ties naturally around the neck."]>>,
   headwear |->
     <<[when |-> "IF the user uploaded a HAT",
        marker |-> YesNo(styling.hasHat),
        directive |-> "ACTION: Replace any existing headwear."]>>,
   garmentDescriptions |-> descriptions,
   top |-> IF styling.hasNewTop THEN "REPLACE the subject's top."
           ELSE "KEEP the subject's top.",
   bottoms |-> IF styling.hasNewBottoms THEN "REPLACE the subject's bottoms."
               ELSE "KEEP the subject's bottoms.",
   outfit |-> IF styling.hasDress
              THEN "Ensure the garment is worn as a full-body outfit, completely replacing the original outfit. Do not render as a vest."
              ELSE "Ensure seamless integration."]

\* Variant: the subject image is sent after the garment images.
SynthesisRequest_SubjectLast(image, isolated, descriptions, styling) ==
  LET subject == image[1]
      aspectRatio == AspectRatio(subject.width, subject.height)
  IN [model |-> "gemini-3-pro-image-preview",
      prompt |-> Prompt(aspectRatio, descriptions, styling),
      parts |-> <<PromptPart("tryOn")>>
                \o [i \in 1..Len(isolated) |->
                      fileToGenerativePart(isolated[i].base64,
                                           IF isolated[i].mimeType # ""
                                           THEN isolated[i].mimeType
                                           ELSE "image/png")]
                \o <<fileToGenerativePart(subject.base64, subject.mimeType)>>,
      aspectRatio |-> aspectRatio]

\* The synthesis request: the prompt, the subject image, the garment images,
\* and the aspect ratio as generation configuration.
SynthesisRequest(image, isolated, descriptions, styling) ==
  LET subject == image[1]
      aspectRatio == AspectRatio(subject.width, subject.height)
  IN [model |-> "gemini-3-pro-image-preview",
      prompt |-> Prompt(aspectRatio, descriptions, styling),
      parts |-> <<PromptPart("tryOn"),
                  fileToGenerativePart(subject.base64, subject.mimeType)>>
                \o [i \in 1..Len(isolated) |->
                      fileToGenerativePart(isolated[i].base64,
                                           IF isolated[i].mimeType # ""
                                           THEN isolated[i].mimeType
                                           ELSE "image/png")],
      aspectRatio |-> aspectRatio]

\* Variant: the last inline image is taken.
FirstImage_Last(parts) ==
  IF \E j \in 1..Len(parts) : parts[j].kind = "inlineData"
  THEN CHOOSE j \in 1..Len(parts) :
         /\ parts[j].kind = "inlineData"
         /\ \A k \in (j + 1)..Len(parts) : parts[k].kind # "inlineData"
  ELSE 0

\* parts.find(p => p.inlineData): index of the first inline image, 0 if none.
FirstImage(parts) ==
  IF \E j \in 1..Len(parts) : parts[j].kind = "inlineData"
  THEN CHOOSE j \in 1..Len(parts) :
         /\ parts[j].kind = "inlineData"
         /\ \A k \in 1..(j - 1) : parts[k].kind # "inlineData"
  ELSE 0

\* `data:${mimeType};base64,${data}`
DataUrl(part) == [mimeType |-> part.mimeType, data |-> part.data]

\* ------------------------------------------------ size-fit: value domains
\* A body analysis a caller may hold (BodyAnalysis); the confidence is
\* written in hundredths.
BodyAnalyses ==
  { [estimated_height_in |-> 66, bust_or_chest_in |-> 36, waist_in |-> 30,
     hip_in |-> 38, build |-> "medium", posture_notes |-> "upright",
     confidence_0_to_1 |-> 80] }

ProductInfos == { "linen shirt, relaxed fit" }
SizeLists == { <<"S", "M", "L">> }
TargetSizes == { "M" }
OutfitTypes == { "top" }

\* The product photo and the size guide of the size-fit workflow
\* (UploadedImage).
ProductImage ==
  [id |-> "product", base64 |-> [product |-> 1], mimeType |-> "image/jpeg"]

SizeGuideImage ==
  [id |-> "guide", base64 |-> [guide |-> 1], mimeType |-> "image/png"]

\* response.text of a structured call: absent or empty, text that is not
\* JSON, or the JSON text of a value.
NoText == [text |-> FALSE, json |-> FALSE, value |-> <<>>]
MalformedText == [text |-> TRUE, json |-> FALSE, value |-> <<>>]
JsonText(v) == [text |-> TRUE, json |-> TRUE, value |-> <<v>>]

\* Answers to analyzeBody: no text, malformed text, a full analysis, an
\* object with one key only.
BodyResponses ==
  { NoText, MalformedText } \cup { JsonText(b) : b \in BodyAnalyses }
    \cup { JsonText([build |-> "slim"]) }

\* Answers to recommendSize: no text, malformed text, sizes taken from the
\* available ones, a size that is not among them.
SizeResponses ==
  { NoText, MalformedText,
    JsonText([base_size |-> "M", try_on_sizes |-> <<"M", "L">>,
              skipped_sizes |-> <<"S">>, reason |-> "M is the true size"]),
    JsonText([base_size |-> "XL", try_on_sizes |-> <<"XL">>,
              skipped_sizes |-> <<>>, reason |-> "runs small"]) }

\* The request of analyzeBody: the subject image, the prompt, and the
\* response schema with its required keys.
BodyAnalysisRequest(subject) ==
  [model |-> "gemini-2.5-flash",
   parts |-> <<fileToGenerativePart(subject.base64, subject.mimeType),
               PromptPart("analyzeBody")>>,
   responseMimeType |-> "application/json",
   required |-> { "estimated_height_in", "bust_or_chest_in", "waist_in",
                  "hip_in", "build", "posture_notes", "confidence_0_to_1" }]

\* The request of recommendSize: one text part that embeds the analysis,
\* the product text and the sizes.
SizeRecommendationRequest(bodyAnalysis, productInfo, availableSizes) ==
  [model |-> "gemini-2.5-flash",
   parts |-> <<[kind |-> "text", mimeType |-> "text/plain",
                data |-> [bodyAnalysis |-> bodyAnalysis,
                          productInfo |-> productInfo,
                          availableSizes |-> availableSizes]]>>,
   responseMimeType |-> "application/json",
   required |-> { "try_on_sizes", "skipped_sizes", "reason" }]

\* Variant: the ratio is taken as height / width.
SizeFitAspectRatio_Inverted(width, height) ==
  IF width # 0 /\ height # 0
  THEN IF WithinTolerance(height, width, 16, 9) THEN "16:9"
       ELSE IF WithinTolerance(height, width, 9, 16) THEN "9:16"
       ELSE IF WithinTolerance(height, width, 4, 3) THEN "4:3"
       ELSE IF WithinTolerance(height, width, 3, 4) THEN "3:4"
       ELSE "1:1"
  ELSE "1:1"

\* The aspect-ratio bucket as generateSizeFitTryOn resolves it (its own
\* copy of the chain).
SizeFitAspectRatio(width, height) ==
  IF width # 0 /\ height # 0
  THEN IF WithinTolerance(width, height, 16, 9) THEN "16:9"
       ELSE IF WithinTolerance(width, height, 9, 16) THEN "9:16"
       ELSE IF WithinTolerance(width, height, 4, 3) THEN "4:3"
       ELSE IF WithinTolerance(width, height, 3, 4) THEN "3:4"
       ELSE "1:1"
  ELSE "1:1"

\* Variant: the size guide is sent before the garment.
SizeFitRequest_GuideFirst(subject, garment, sizeGuide, bodyAnalysis, targetSize, productInfo, outfitType) ==
  [model |-> "gemini-3-pro-image-preview",
   parts |-> <<fileToGenerativePart(subject.base64, subject.mimeType),
               fileToGenerativePart(sizeGuide.base64, sizeGuide.mimeType),
               fileToGenerativePart(garment.base64, garment.mimeType),
               [kind |-> "text", mimeType |-> "text/plain",
                data |-> [targetSize |-> targetSize, outfitType |-> outfitType,
                          bodyAnalysis |-> bodyAnalysis,
                          productInfo |-> productInfo]]>>,
   aspectRatio |-> SizeFitAspectRatio(subject.width, subject.height)]

\* The request of generateSizeFitTryOn: the three images, then the prompt
\* with the target size, the outfit type, the analysis and the product text.
SizeFitRequest(subject, garment, sizeGuide, bodyAnalysis, targetSize, productInfo, outfitType) ==
  [model |-> "gemini-3-pro-image-preview",
   parts |-> <<fileToGenerativePart(subject.base64, subject.mimeType),
               fileToGenerativePart(garment.base64, garment.mimeType),
               fileToGenerativePart(sizeGuide.base64, sizeGuide.mimeType),
               [kind |-> "text", mimeType |-> "text/plain",
                data |-> [targetSize |-> targetSize, outfitType |-> outfitType,
                          bodyAnalysis |-> bodyAnalysis,
                          productInfo |-> productInfo]]>>,
   aspectRatio |-> SizeFitAspectRatio(subject.width, subject.height)]

\* -------------------------------------------------------------------- state
VARIABLES
  apiKey,               \* import.meta.env.VITE_API_KEY is set
  ai,                   \* the module-level client has been created
  caller,               \* who started the current invocation
  modelImage,           \* argument: the subject, or Null
  initialGarments,      \* argument: the garment list
  isSameGarment,        \* argument: the "same garment" flag
  pc,                   \* stage of the current invocation
  strategy,             \* branch taken by the analysis
  progress,             \* messages passed to onProgress, in order
  analysisCalls,        \* analyzeText calls issued, in order of issue
  isolatedGarments,     \* the garments with their descriptions
  garmentDescriptions,  \* the text handed to classifier and prompt
  flags,                \* the styling flags of the classifier
  synthCalls,           \* synthesizeImage calls issued
  result,               \* the value the invocation resolved to
  err,                  \* the error the invocation rejected with
  isLoading,            \* App state
  loadingMessage,       \* App state
  finalImage,           \* App state
  error,                \* App state
  sizeFit,              \* the latest operation of the size-fit workflow
  classifierRuns,       \* the classifier applied on its own: text and flags
  app,                  \* App state: the inputs of the session
  pending,              \* handlers of the App awaiting an operation of the hook
  started,              \* number of operations the App has started
  uploads               \* file selections handed to a FileDropzone, in order

envVars == <<apiKey, ai>>
argVars == <<caller, modelImage, initialGarments, isSameGarment>>
runVars == <<pc, strategy, progress, analysisCalls, isolatedGarments,
             garmentDescriptions, flags, synthCalls, result, err>>
appVars == <<isLoading, loadingMessage, finalImage, error>>
uiVars == <<app, pending, started, uploads>>
vars == <<envVars, argVars, runVars, appVars, sizeFit, classifierRuns, uiVars>>

\* The state of the size-fit workflow before any of its operations ran.
SizeFitIdle ==
  [op |-> None, pc |-> "Idle", progress |-> <<>>, calls |-> <<>>,
   result |-> Null, err |-> None]

\* The inputs of the App after construction (the useState initial values)
\* and after handleReset.
AppIdle ==
  [modelImage |-> Null, garments |-> <<>>, isSizeFitMode |-> FALSE,
   sizeGuide |-> Null, productInfo |-> "", bodyAnalysis |-> Null,
   sizeRecommendation |-> Null, selectedSize |-> ""]

\* The App at rest: nothing uploaded, no operation started.
UiIdle ==
  /\ app = AppIdle
  /\ pending = <<>>
  /\ started = 0
  /\ uploads = <<>>

\* The hook before any invocation, and the result area of the App empty.
NoOperationYet ==
  /\ apiKey \in BOOLEAN
  /\ ai = FALSE
  /\ caller = None
  /\ modelImage = Null
  /\ initialGarments = <<>>
  /\ isSameGarment = FALSE
  /\ pc = "Idle"
  /\ strategy = None
  /\ progress = <<>>
  /\ analysisCalls = <<>>
  /\ isolatedGarments = <<>>
  /\ garmentDescriptions = <<>>
  /\ flags = NoFlags
  /\ synthCalls = <<>>
  /\ result = Null
  /\ err = None
  /\ isLoading = FALSE
  /\ loadingMessage = ""
  /\ finalImage = Null
  /\ error = None
  /\ sizeFit = SizeFitIdle
  /\ classifierRuns = <<>>

Init ==
  /\ NoOperationYet
  /\ UiIdle

\* ---------------------------------------------------------------- messages
MissingInputMessage == "Please upload a model image and at least one garment."
MissingKeyMessage == "VITE_API_KEY is missing. Please checks your .env file."
NoImageMessage ==
  "The AI failed to generate an image. It may have refused the request or produced an invalid response."
CapabilityErrorMessage == "generateContent rejected"
TypeErrorMessage == "Cannot read properties of null (reading 'base64')"
AnalyzeBodyFailedMessage == "Failed to analyze body."
RecommendSizeFailedMessage == "Failed to recommend size."
GenerateImageFailedMessage == "Failed to generate image."
SyntaxErrorMessage == "Unexpected token in JSON"

\* A message that would include the text of a response without image.
ExplainedNoImageMessage ==
  "The AI failed to generate an image. Text response: <response.text>"

\* response.text: the texts of the text parts, empty when there is none.
ResponseText(parts) ==
  LET texts == SelectSeq(parts, LAMBDA p : p.kind = "text")
  IN [k \in 1..Len(texts) |-> texts[k].data]

\* Variant: the message of the error includes the text of the response.
ErrorOfNoImage_Explained(textResponse) ==
  IF textResponse # <<>> THEN ExplainedNoImageMessage ELSE NoImageMessage

\* Lines 223-225: the text of the response is written to the console, and
\* the error thrown has a fixed message.
ErrorOfNoImage(textResponse) == NoImageMessage

\* ---------------------------------------------------- effects on the caller
\* onProgress(message): the sink records it; handleGenerate's sink is
\* setLoadingMessage.
Emit(message) ==
  /\ progress' = Append(progress, message)
  /\ loadingMessage' = IF caller = "handleGenerate" THEN message ELSE loadingMessage

\* The invocation resolves: handleGenerate stores the image and clears isLoading.
Resolve(image) ==
  /\ pc' = "Done"
  /\ result' = Some(image)
  /\ err' = None
  /\ IF caller = "handleGenerate"
     THEN /\ finalImage' = Some(image)
          /\ isLoading' = FALSE
          /\ error' = error
     ELSE UNCHANGED <<finalImage, isLoading, error>>

\* The invocation rejects: handleGenerate stores the message and clears
\* isLoading.
Reject(message) ==
  /\ pc' = "Failed"
  /\ err' = message
  /\ result' = Null
  /\ IF caller = "handleGenerate"
     THEN /\ error' = message
          /\ isLoading' = FALSE
          /\ finalImage' = finalImage
     ELSE UNCHANGED <<finalImage, isLoading, error>>

\* getAiClient that builds a client whether or not the key is set.
ClientAvailable_WithoutKey == TRUE

\* getAiClient: succeeds when the client exists or the key is set.
ClientAvailable == ai \/ apiKey

\* ----------------------------------------------------------------- entries
NoInvocationInFlight ==
  /\ pc \in {"Idle", "Done", "Failed"}
  /\ sizeFit.op = None

\* Variant: the result of the invocation before stays until the new one
\* settles.
Begin_KeepsResult(who, subject, garments, sameGarment) ==
  /\ caller' = who
  /\ modelImage' = subject
  /\ initialGarments' = garments
  /\ isSameGarment' = sameGarment
  /\ pc' = "Init"
  /\ strategy' = None
  /\ progress' = <<>>
  /\ analysisCalls' = <<>>
  /\ isolatedGarments' = <<>>
  /\ garmentDescriptions' = <<>>
  /\ synthCalls' = <<>>
  /\ result' = result
  /\ err' = None
  /\ flags' = NoFlags

\* The body of generateVirtualTryOn starts with these arguments.
Begin(who, subject, garments, sameGarment) ==
  /\ caller' = who
  /\ modelImage' = subject
  /\ initialGarments' = garments
  /\ isSameGarment' = sameGarment
  /\ pc' = "Init"
  /\ strategy' = None
  /\ progress' = <<>>
  /\ analysisCalls' = <<>>
  /\ isolatedGarments' = <<>>
  /\ garmentDescriptions' = <<>>
  /\ synthCalls' = <<>>
  /\ result' = Null
  /\ err' = None
  /\ flags' = NoFlags

\* A component other than the App calls the hook's generateVirtualTryOn with
\* any arguments.  One instance of the hook serves one kind of caller.
generateVirtualTryOn(subject, garments, sameGarment) ==
  /\ NoInvocationInFlight
  /\ caller \in {None, "direct"}
  /\ Begin("direct", subject, garments, sameGarment)
  /\ UNCHANGED <<envVars, appVars>>
  /\ UNCHANGED <<sizeFit, classifierRuns, uiVars>>

\* The guard of handleGenerate: !modelImage || garments.length === 0
MissingInput_SubjectOnly(subject, garments) == subject = Null

MissingInput(subject, garments) == subject = Null \/ Len(garments) = 0

\* handleGenerate with the App holding this subject, these garments and this
\* flag (standard workflow): the guard, then the call of generateVirtualTryOn.
handleGenerate(subject, garments, sameGarment) ==
  /\ NoInvocationInFlight
  /\ caller \in {None, "handleGenerate"}
  /\ IF MissingInput(subject, garments)
     THEN /\ error' = MissingInputMessage
          /\ caller' = "handleGenerate"
          /\ modelImage' = subject
          /\ initialGarments' = garments
          /\ isSameGarment' = sameGarment
          /\ pc' = "Idle"
          /\ strategy' = None
          /\ progress' = <<>>
          /\ analysisCalls' = <<>>
          /\ isolatedGarments' = <<>>
          /\ garmentDescriptions' = <<>>
          /\ flags' = NoFlags
          /\ synthCalls' = <<>>
          /\ result' = Null
          /\ err' = None
          /\ UNCHANGED <<envVars, isLoading, loadingMessage, finalImage>>
     ELSE /\ isLoading' = TRUE
          /\ error' = None
          /\ finalImage' = Null
          /\ loadingMessage' = "Initializing virtual try-on..."
          /\ Begin("handleGenerate", subject, garments, sameGarment)
          /\ UNCHANGED envVars
  /\ UNCHANGED <<sizeFit, classifierRuns, uiVars>>

\* ------------------------------------------------------- the analysis stage
\* Lines 45-106: the branch is taken, its progress message emitted and its
\* analyzeText calls issued; the coroutine then waits for them.
StartAnalysis ==
  /\ pc = "Init"
  /\ LET strat == Strategy(initialGarments, isSameGarment)
         n == Len(initialGarments)
     IN /\ strategy' = strat
        /\ Emit(AnalysisMessage(strat))
        /\ CASE strat = "Consolidated" ->
                  IF ClientAvailable
                  THEN /\ ai' = TRUE
                       /\ analysisCalls' = <<PendingCall(ConsolidatedRequest(initialGarments))>>
                       /\ pc' = "Analyzing"
                       /\ UNCHANGED <<isolatedGarments, result, err,
                                      isLoading, finalImage, error>>
                  ELSE /\ Reject(MissingKeyMessage)
                       /\ UNCHANGED <<ai, analysisCalls, isolatedGarments>>
             [] strat = "SingleVisualOnly" ->
                  /\ isolatedGarments' = SameDescription(initialGarments, <<>>)
                  /\ pc' = "Analyzing"
                  /\ UNCHANGED <<ai, analysisCalls, result, err,
                                 isLoading, finalImage, error>>
             [] OTHER ->
                  IF n = 0 \/ ClientAvailable
                  THEN /\ ai' = (ai \/ n > 0)
                       /\ analysisCalls' = FanOut(initialGarments)
                       /\ pc' = "Analyzing"
                       /\ UNCHANGED <<isolatedGarments, result, err,
                                      isLoading, finalImage, error>>
                  ELSE /\ Reject(MissingKeyMessage)
                       /\ UNCHANGED <<ai, analysisCalls, isolatedGarments>>
  /\ UNCHANGED <<apiKey, argVars, garmentDescriptions, synthCalls>>
  /\ UNCHANGED <<flags, sizeFit, classifierRuns, uiVars>>

\* The analysis has nothing to wait for (one garment analysed visually only,
\* or Promise.all of no call): the coroutine goes on.
AnalysisWithoutCall ==
  /\ pc = "Analyzing"
  /\ analysisCalls = <<>>
  /\ isolatedGarments' =
       IF strategy = "SingleVisualOnly" THEN isolatedGarments
       ELSE MatchDescriptions(initialGarments, <<>>)
  /\ pc' = "Classifying"
  /\ UNCHANGED <<envVars, argVars, strategy, progress, analysisCalls,
                 garmentDescriptions, synthCalls, result, err, appVars>>
  /\ UNCHANGED <<flags, sizeFit, classifierRuns, uiVars>>

\* Variant: the description is written on the caller's garments.
ConsolidatedResponse_InPlace(text) ==
  /\ pc = "Analyzing"
  /\ strategy = "Consolidated"
  /\ analysisCalls[1].st = "pending"
  /\ analysisCalls' = <<[analysisCalls[1] EXCEPT !.st = "fulfilled", !.text = text]>>
  /\ isolatedGarments' = SameDescription(initialGarments, DescriptionOf(text))
  /\ initialGarments' = isolatedGarments'
  /\ pc' = "Classifying"
  /\ UNCHANGED <<envVars, caller, modelImage, isSameGarment, strategy, progress,
                 garmentDescriptions, synthCalls, result, err, appVars>>
  /\ UNCHANGED <<flags, sizeFit, classifierRuns, uiVars>>

\* The consolidated call returns a response with this text (lines 67-73).
ConsolidatedResponse(text) ==
  /\ pc = "Analyzing"
  /\ strategy = "Consolidated"
  /\ analysisCalls[1].st = "pending"
  /\ analysisCalls' = <<[analysisCalls[1] EXCEPT !.st = "fulfilled", !.text = text]>>
  /\ isolatedGarments' = SameDescription(initialGarments, DescriptionOf(text))
  /\ pc' = "Classifying"
  /\ UNCHANGED <<envVars, argVars, strategy, progress, garmentDescriptions,
                 synthCalls, result, err, appVars>>
  /\ UNCHANGED <<flags, sizeFit, classifierRuns, uiVars>>

\* The consolidated call fails: the await throws.
ConsolidatedFailure ==
  /\ pc = "Analyzing"
  /\ strategy = "Consolidated"
  /\ analysisCalls[1].st = "pending"
  /\ analysisCalls' = <<[analysisCalls[1] EXCEPT !.st = "rejected"]>>
  /\ Reject(CapabilityErrorMessage)
  /\ UNCHANGED <<envVars, argVars, strategy, progress, loadingMessage,
                 isolatedGarments, garmentDescriptions, synthCalls>>
  /\ UNCHANGED <<flags, sizeFit, classifierRuns, uiVars>>

AllFulfilled(calls) == \A j \in 1..Len(calls) : calls[j].st = "fulfilled"

\* Promise.all resolves to the callbacks' values, in the order of the input.
PromiseAllValue(garments, calls) ==
  [j \in 1..Len(calls) |-> CallbackValue(garments, calls, j)]

\* The call of garment i returns a response with this text; when it was the
\* last one outstanding, Promise.all resolves and lines 108-113 run.
ParallelResponse(i, text) ==
  /\ pc = "Analyzing"
  /\ strategy = "ParallelIndividual"
  /\ i \in 1..Len(analysisCalls)
  /\ analysisCalls[i].st = "pending"
  /\ LET calls == [analysisCalls EXCEPT ![i].st = "fulfilled", ![i].text = text]
     IN /\ analysisCalls' = calls
        /\ IF AllFulfilled(calls)
           THEN /\ isolatedGarments' =
                     MatchDescriptions(initialGarments,
                                       PromiseAllValue(initialGarments, calls))
                /\ pc' = "Classifying"
           ELSE UNCHANGED <<isolatedGarments, pc>>
  /\ UNCHANGED <<envVars, argVars, strategy, progress, garmentDescriptions,
                 synthCalls, result, err, appVars>>
  /\ UNCHANGED <<flags, sizeFit, classifierRuns, uiVars>>

\* Variant: a failed call counts as a garment without result, and the stage
\* goes on with the descriptions of the calls that succeeded.
ParallelFailure_Tolerated(i) ==
  /\ pc = "Analyzing"
  /\ strategy = "ParallelIndividual"
  /\ i \in 1..Len(analysisCalls)
  /\ analysisCalls[i].st = "pending"
  /\ LET calls == [analysisCalls EXCEPT ![i].st = "rejected"]
         values == SelectSeq([j \in 1..Len(calls) |->
                                [id |-> initialGarments[j].id,
                                 description |-> DescriptionOf(calls[j].text),
                                 st |-> calls[j].st]],
                             LAMBDA v : v.st = "fulfilled")
     IN /\ analysisCalls' = calls
        /\ IF \A j \in 1..Len(calls) : calls[j].st # "pending"
           THEN /\ isolatedGarments' = MatchDescriptions(initialGarments, values)
                /\ pc' = "Classifying"
           ELSE UNCHANGED <<isolatedGarments, pc>>
  /\ UNCHANGED <<envVars, argVars, strategy, progress, garmentDescriptions,
                 synthCalls, result, err, appVars>>
  /\ UNCHANGED <<flags, sizeFit, classifierRuns, uiVars>>

\* Variant: the join waits for every call to settle before it reports the
\* failure.
ParallelFailure_WaitForAll(i) ==
  /\ pc = "Analyzing"
  /\ strategy = "ParallelIndividual"
  /\ i \in 1..Len(analysisCalls)
  /\ analysisCalls[i].st = "pending"
  /\ LET calls == [analysisCalls EXCEPT ![i].st = "rejected"]
     IN /\ analysisCalls' = calls
        /\ IF \A j \in 1..Len(calls) : calls[j].st # "pending"
           THEN Reject(CapabilityErrorMessage)
           ELSE UNCHANGED <<pc, result, err, isLoading, finalImage, error>>
  /\ UNCHANGED <<envVars, argVars, strategy, progress, loadingMessage,
                 isolatedGarments, garmentDescriptions, synthCalls>>
  /\ UNCHANGED <<flags, sizeFit, classifierRuns, uiVars>>

\* The call of garment i fails: Promise.all rejects at once, whatever calls
\* are still outstanding, and the await of line 108 throws.
ParallelFailure(i) ==
  /\ pc = "Analyzing"
  /\ strategy = "ParallelIndividual"
  /\ i \in 1..Len(analysisCalls)
  /\ analysisCalls[i].st = "pending"
  /\ analysisCalls' = [analysisCalls EXCEPT ![i].st = "rejected"]
  /\ Reject(CapabilityErrorMessage)
  /\ UNCHANGED <<envVars, argVars, strategy, progress, loadingMessage,
                 isolatedGarments, garmentDescriptions, synthCalls>>
  /\ UNCHANGED <<flags, sizeFit, classifierRuns, uiVars>>

\* A call still outstanding after Promise.all rejected settles; its outcome
\* is dropped.
LateSettle(i) ==
  /\ pc = "Failed"
  /\ i \in 1..Len(analysisCalls)
  /\ analysisCalls[i].st = "pending"
  /\ analysisCalls' = [analysisCalls EXCEPT ![i].st = "dropped"]
  /\ UNCHANGED <<envVars, argVars, pc, strategy, progress, isolatedGarments,
                 garmentDescriptions, synthCalls, result, err, appVars>>
  /\ UNCHANGED <<flags, sizeFit, classifierRuns, uiVars>>

\* ------------------------------------------- classification, prompt, synthesis
\* Variant: the classification starts without a progress message.
Classify_Silent ==
  /\ pc = "Classifying"
  /\ garmentDescriptions' = GarmentDescriptions(isolatedGarments, isSameGarment)
  /\ flags' = Classifier(garmentDescriptions')
  /\ pc' = "PromptBuilding"
  /\ UNCHANGED <<envVars, argVars, strategy, progress, analysisCalls,
                 isolatedGarments, synthCalls, result, err, appVars, sizeFit,
                 classifierRuns, uiVars>>

\* Lines 117-139: the progress message, then the description text the flags
\* are derived from.
Classify ==
  /\ pc = "Classifying"
  /\ Emit("Compositing new look...")
  /\ garmentDescriptions' = GarmentDescriptions(isolatedGarments, isSameGarment)
  /\ pc' = "PromptBuilding"
  /\ UNCHANGED <<envVars, argVars, strategy, analysisCalls, isolatedGarments,
                 synthCalls, result, err, isLoading, finalImage, error>>
  /\ flags' = Classifier(garmentDescriptions')
  /\ UNCHANGED <<sizeFit, classifierRuns, uiVars>>

\* Lines 141-203: the image parts, the aspect ratio and the prompt; reading
\* the fields of a missing subject throws.
BuildPrompt ==
  /\ pc = "PromptBuilding"
  /\ IF modelImage = Null
     THEN Reject(TypeErrorMessage)
     ELSE /\ pc' = "Synthesizing"
          /\ UNCHANGED <<result, err, isLoading, finalImage, error>>
  /\ UNCHANGED <<envVars, argVars, strategy, progress, loadingMessage,
                 analysisCalls, isolatedGarments, garmentDescriptions, synthCalls>>
  /\ UNCHANGED <<flags, sizeFit, classifierRuns, uiVars>>

\* Lines 205-215: the client is obtained and the synthesis call issued.
IssueSynthesis ==
  /\ pc = "Synthesizing"
  /\ synthCalls = <<>>
  /\ IF ClientAvailable
     THEN /\ ai' = TRUE
          /\ synthCalls' =
               <<[req |-> SynthesisRequest(modelImage, isolatedGarments,
                                           garmentDescriptions, flags),
                  st |-> "pending", parts |-> <<>>]>>
          /\ UNCHANGED <<pc, result, err, isLoading, finalImage, error>>
     ELSE /\ Reject(MissingKeyMessage)
          /\ UNCHANGED <<ai, synthCalls>>
  /\ UNCHANGED <<apiKey, argVars, strategy, progress, loadingMessage,
                 analysisCalls, isolatedGarments, garmentDescriptions>>
  /\ UNCHANGED <<flags, sizeFit, classifierRuns, uiVars>>

\* The synthesis call returns a response with these parts.
SynthesisResponse(parts) ==
  /\ pc = "Synthesizing"
  /\ synthCalls # <<>>
  /\ synthCalls[1].st = "pending"
  /\ synthCalls' = <<[synthCalls[1] EXCEPT !.st = "fulfilled", !.parts = parts]>>
  /\ pc' = "ExtractingResult"
  /\ UNCHANGED <<envVars, argVars, strategy, progress, analysisCalls,
                 isolatedGarments, garmentDescriptions, result, err, appVars>>
  /\ UNCHANGED <<flags, sizeFit, classifierRuns, uiVars>>

\* Variant: the failure of the synthesis call is swallowed.
SynthesisFailure_Swallowed ==
  /\ pc = "Synthesizing"
  /\ synthCalls # <<>>
  /\ synthCalls[1].st = "pending"
  /\ synthCalls' = <<[synthCalls[1] EXCEPT !.st = "rejected"]>>
  /\ UNCHANGED <<envVars, argVars, pc, strategy, progress, analysisCalls,
                 isolatedGarments, garmentDescriptions, result, err, appVars>>
  /\ UNCHANGED <<flags, sizeFit, classifierRuns, uiVars>>

\* Variant: a failed synthesis call is reported like a response without
\* image.
SynthesisFailure_AsNoImage ==
  /\ pc = "Synthesizing"
  /\ synthCalls # <<>>
  /\ synthCalls[1].st = "pending"
  /\ synthCalls' = <<[synthCalls[1] EXCEPT !.st = "rejected"]>>
  /\ Reject(NoImageMessage)
  /\ UNCHANGED <<envVars, argVars, strategy, progress, loadingMessage,
                 analysisCalls, isolatedGarments, garmentDescriptions>>
  /\ UNCHANGED <<flags, sizeFit, classifierRuns, uiVars>>

\* The synthesis call fails: the await throws.
SynthesisFailure ==
  /\ pc = "Synthesizing"
  /\ synthCalls # <<>>
  /\ synthCalls[1].st = "pending"
  /\ synthCalls' = <<[synthCalls[1] EXCEPT !.st = "rejected"]>>
  /\ Reject(CapabilityErrorMessage)
  /\ UNCHANGED <<envVars, argVars, strategy, progress, loadingMessage,
                 analysisCalls, isolatedGarments, garmentDescriptions>>
  /\ UNCHANGED <<flags, sizeFit, classifierRuns, uiVars>>

\* Variant: the last progress message is emitted before the response is
\* searched for an image.
ExtractResult_FinalizingFirst ==
  /\ pc = "ExtractingResult"
  /\ Emit("Finalizing image...")
  /\ LET parts == synthCalls[1].parts
         j == FirstImage(parts)
     IN IF j # 0
        THEN Resolve(DataUrl(parts[j]))
        ELSE Reject(ErrorOfNoImage(ResponseText(parts)))
  /\ UNCHANGED <<envVars, argVars, strategy, analysisCalls, isolatedGarments,
                 garmentDescriptions, synthCalls>>
  /\ UNCHANGED <<flags, sizeFit, classifierRuns, uiVars>>

\* Lines 217-225: the first inline image is returned, after the last
\* progress message; a response without image is an error.
ExtractResult ==
  /\ pc = "ExtractingResult"
  /\ LET parts == synthCalls[1].parts
         j == FirstImage(parts)
     IN IF j # 0
        THEN /\ Emit("Finalizing image...")
             /\ Resolve(DataUrl(parts[j]))
        ELSE /\ Reject(ErrorOfNoImage(ResponseText(parts)))
             /\ UNCHANGED <<progress, loadingMessage>>
  /\ UNCHANGED <<envVars, argVars, strategy, analysisCalls, isolatedGarments,
                 garmentDescriptions, synthCalls>>
  /\ UNCHANGED <<flags, sizeFit, classifierRuns, uiVars>>

\* ------------------------------------------------- the size-fit operations
\* One instance of the hook serves one workflow, and the caller awaits an
\* operation before it starts the next.
NoOperationInFlight ==
  /\ pc = "Idle"
  /\ caller = None
  /\ sizeFit.pc # "Awaiting"

\* An operation of the size-fit workflow runs up to its await: the progress
\* message (the pieces of its template), getAiClient, then the one call.
StartOperation(op, message, req) ==
  /\ IF ClientAvailable
     THEN /\ ai' = TRUE
          /\ sizeFit' = [op |-> op, pc |-> "Awaiting", progress |-> <<message>>,
                         calls |-> <<[req |-> req, st |-> "pending",
                                      response |-> <<>>]>>,
                         result |-> Null, err |-> None]
     ELSE /\ ai' = ai
          /\ sizeFit' = [op |-> op, pc |-> "Failed", progress |-> <<message>>,
                         calls |-> <<>>, result |-> Null,
                         err |-> MissingKeyMessage]
  /\ UNCHANGED <<apiKey, argVars, runVars, appVars, classifierRuns, uiVars>>

analyzeBody(subject) ==
  /\ NoOperationInFlight
  /\ StartOperation("analyzeBody", <<"Analyzing body measurements...">>,
                    BodyAnalysisRequest(subject))

recommendSize(bodyAnalysis, productInfo, availableSizes) ==
  /\ NoOperationInFlight
  /\ StartOperation("recommendSize", <<"Recommending size...">>,
                    SizeRecommendationRequest(bodyAnalysis, productInfo,
                                              availableSizes))

generateSizeFitTryOn(subject, garment, sizeGuide, bodyAnalysis, targetSize, productInfo, outfitType) ==
  /\ NoOperationInFlight
  /\ StartOperation("generateSizeFitTryOn",
                    <<"Generating try-on for size ", targetSize, "...">>,
                    SizeFitRequest(subject, garment, sizeGuide, bodyAnalysis,
                                   targetSize, productInfo, outfitType))

\* The operation settles: its call gets this status and answer, and the
\* operation resolves (err = None) or rejects.
Settle(st, response, value, message) ==
  sizeFit' = [sizeFit EXCEPT
                !.calls = <<[sizeFit.calls[1] EXCEPT !.st = st,
                                                      !.response = response]>>,
                !.pc = IF message = None THEN "Done" ELSE "Failed",
                !.result = value,
                !.err = message]

\* Variant: the skipped sizes are derived again from the available sizes.
StructuredResponse_Rederived(r) ==
  /\ sizeFit.pc = "Awaiting"
  /\ \/ sizeFit.op = "analyzeBody" /\ r \in BodyResponses
     \/ sizeFit.op = "recommendSize" /\ r \in SizeResponses
  /\ IF ~r.text
     THEN Settle("fulfilled", <<r>>, Null,
                 IF sizeFit.op = "analyzeBody" THEN AnalyzeBodyFailedMessage
                 ELSE RecommendSizeFailedMessage)
     ELSE IF ~r.json
          THEN Settle("fulfilled", <<r>>, Null, SyntaxErrorMessage)
          ELSE IF sizeFit.op = "analyzeBody"
               THEN Settle("fulfilled", <<r>>, Some(r.value[1]), None)
               ELSE LET available == sizeFit.calls[1].req.parts[1].data.availableSizes
                        tried == r.value[1].try_on_sizes
                        skipped ==
                          SelectSeq(available,
                                    LAMBDA z : \A k \in 1..Len(tried) : tried[k] # z)
                    IN Settle("fulfilled", <<r>>,
                              Some([r.value[1] EXCEPT !.skipped_sizes = skipped]),
                              None)
  /\ UNCHANGED <<envVars, argVars, runVars, appVars, classifierRuns, uiVars>>

\* Variant: sizes that are not available are dropped from the sizes to try.
StructuredResponse_Filtered(r) ==
  /\ sizeFit.pc = "Awaiting"
  /\ \/ sizeFit.op = "analyzeBody" /\ r \in BodyResponses
     \/ sizeFit.op = "recommendSize" /\ r \in SizeResponses
  /\ IF ~r.text
     THEN Settle("fulfilled", <<r>>, Null,
                 IF sizeFit.op = "analyzeBody" THEN AnalyzeBodyFailedMessage
                 ELSE RecommendSizeFailedMessage)
     ELSE IF ~r.json
          THEN Settle("fulfilled", <<r>>, Null, SyntaxErrorMessage)
          ELSE IF sizeFit.op = "analyzeBody"
               THEN Settle("fulfilled", <<r>>, Some(r.value[1]), None)
               ELSE LET available == sizeFit.calls[1].req.parts[1].data.availableSizes
                        kept ==
                          SelectSeq(r.value[1].try_on_sizes,
                                    LAMBDA z : \E k \in 1..Len(available) : available[k] = z)
                    IN Settle("fulfilled", <<r>>,
                              Some([r.value[1] EXCEPT !.try_on_sizes = kept]),
                              None)
  /\ UNCHANGED <<envVars, argVars, runVars, appVars, classifierRuns, uiVars>>

\* The call of analyzeBody or recommendSize returns this response: no text
\* is an error, text is parsed as JSON and the value returned as it is.
StructuredResponse(r) ==
  /\ sizeFit.pc = "Awaiting"
  /\ \/ sizeFit.op = "analyzeBody" /\ r \in BodyResponses
     \/ sizeFit.op = "recommendSize" /\ r \in SizeResponses
  /\ IF ~r.text
     THEN Settle("fulfilled", <<r>>, Null,
                 IF sizeFit.op = "analyzeBody" THEN AnalyzeBodyFailedMessage
                 ELSE RecommendSizeFailedMessage)
     ELSE IF ~r.json
          THEN Settle("fulfilled", <<r>>, Null, SyntaxErrorMessage)
          ELSE Settle("fulfilled", <<r>>, Some(r.value[1]), None)
  /\ UNCHANGED <<envVars, argVars, runVars, appVars, classifierRuns, uiVars>>

\* The call of generateSizeFitTryOn returns a response with these parts:
\* the first inline image is returned, a response without image is an error.
SizeFitResponse(parts) ==
  /\ sizeFit.pc = "Awaiting"
  /\ sizeFit.op = "generateSizeFitTryOn"
  /\ LET j == FirstImage(parts)
     IN IF j # 0
        THEN Settle("fulfilled", parts, Some(DataUrl(parts[j])), None)
        ELSE Settle("fulfilled", parts, Null, GenerateImageFailedMessage)
  /\ UNCHANGED <<envVars, argVars, runVars, appVars, classifierRuns, uiVars>>

\* Variant: a failed call is issued again.
OperationFailure_Retried ==
  /\ sizeFit.pc = "Awaiting"
  /\ sizeFit' = [sizeFit EXCEPT
                   !.calls = <<[sizeFit.calls[1] EXCEPT !.st = "rejected"],
                               [sizeFit.calls[1] EXCEPT !.st = "pending"]>>]
  /\ UNCHANGED <<envVars, argVars, runVars, appVars, classifierRuns, uiVars>>

\* The call of the operation fails: the await throws.
OperationFailure ==
  /\ sizeFit.pc = "Awaiting"
  /\ Settle("rejected", <<>>, Null, CapabilityErrorMessage)
  /\ UNCHANGED <<envVars, argVars, runVars, appVars, classifierRuns, uiVars>>

\* ------------------------------------------------------------ specification
Entry ==
  \E subject \in {Null} \cup {Some(s) : s \in Subjects},
     garments \in GarmentLists, sameGarment \in BOOLEAN :
       \/ generateVirtualTryOn(subject, garments, sameGarment)
       \/ handleGenerate(subject, garments, sameGarment)

CapabilityStep ==
  \/ \E text \in ResponseTexts : ConsolidatedResponse(text)
  \/ ConsolidatedFailure
  \/ \E i \in 1..MaxGarments, text \in ResponseTexts : ParallelResponse(i, text)
  \/ \E i \in 1..MaxGarments : ParallelFailure(i)
  \/ \E i \in 1..MaxGarments : LateSettle(i)
  \/ \E parts \in SynthResponses : SynthesisResponse(parts)
  \/ SynthesisFailure

CoroutineStep ==
  \/ StartAnalysis
  \/ AnalysisWithoutCall
  \/ Classify
  \/ BuildPrompt
  \/ IssueSynthesis
  \/ ExtractResult

SizeFitEntry ==
  \/ \E subject \in Subjects : analyzeBody(subject)
  \/ \E bodyAnalysis \in BodyAnalyses, productInfo \in ProductInfos,
        availableSizes \in SizeLists :
          recommendSize(bodyAnalysis, productInfo, availableSizes)
  \/ \E subject \in Subjects, bodyAnalysis \in BodyAnalyses,
        targetSize \in TargetSizes, productInfo \in ProductInfos,
        outfitType \in OutfitTypes :
          generateSizeFitTryOn(subject, ProductImage, SizeGuideImage,
                               bodyAnalysis, targetSize, productInfo,
                               outfitType)

SizeFitStep ==
  \/ \E r \in BodyResponses \cup SizeResponses : StructuredResponse(r)
  \/ \E parts \in SynthResponses : SizeFitResponse(parts)
  \/ OperationFailure

Next == Entry \/ CapabilityStep \/ CoroutineStep \/ SizeFitEntry \/ SizeFitStep

Spec == Init /\ [][Next]_vars

\* Every capability call eventually returns or fails, and the coroutine
\* runs whenever it can.
FairSpec == Spec /\ WF_vars(CapabilityStep) /\ WF_vars(CoroutineStep)

\* ------------------------------------------------ the classifier on its own
\* The analysis stage of an invocation has ended (lines 45-114): the calls
\* of its branch returned these texts, and the garments carry the
\* descriptions made from them.
Analysed(subject, garments, sameGarment, texts) ==
  LET strat == Strategy(garments, sameGarment)
      calls ==
        CASE strat = "Consolidated" ->
               <<[PendingCall(ConsolidatedRequest(garments))
                    EXCEPT !.st = "fulfilled", !.text = texts[1]]>>
          [] strat = "SingleVisualOnly" -> <<>>
          [] OTHER ->
               [i \in 1..Len(garments) |->
                  [FanOut(garments)[i] EXCEPT !.st = "fulfilled",
                                              !.text = texts[i]]]
  IN /\ ai = (calls # <<>>)
     /\ caller = "direct"
     /\ modelImage = Some(subject)
     /\ initialGarments = garments
     /\ isSameGarment = sameGarment
     /\ pc = "Classifying"
     /\ strategy = strat
     /\ progress = <<AnalysisMessage(strat)>>
     /\ analysisCalls = calls
     /\ isolatedGarments =
          CASE strat = "Consolidated" ->
                 SameDescription(garments, DescriptionOf(texts[1]))
            [] strat = "SingleVisualOnly" -> SameDescription(garments, <<>>)
            [] OTHER ->
                 MatchDescriptions(garments, PromiseAllValue(garments, calls))
     /\ garmentDescriptions = <<>>
     /\ flags = NoFlags
     /\ synthCalls = <<>>
     /\ result = Null
     /\ err = None
     /\ isLoading = FALSE
     /\ loadingMessage = ""
     /\ finalImage = Null
     /\ error = None
     /\ sizeFit = SizeFitIdle
     /\ classifierRuns = <<>>
     /\ UiIdle

\* The classifier's inputs: every invocation about to classify, for every
\* list of garments and every text the capability may have described each
\* garment with (one text for the whole batch, none for a garment analysed
\* visually only).
ClassifierInit ==
  /\ apiKey = TRUE
  /\ \E subject \in Subjects, garments \in DescribedLists,
        sameGarment \in BOOLEAN :
       \E texts \in [1..Len(garments) -> ClassifierTexts] :
         /\ sameGarment => \A k \in 1..Len(garments) : texts[k] = texts[1]
         /\ Strategy(garments, sameGarment) = "SingleVisualOnly" =>
              texts[1] = <<>>
         /\ Analysed(subject, garments, sameGarment, texts)

ClassifierNext == Classify \/ BuildPrompt \/ IssueSynthesis

ClassifierSpec == ClassifierInit /\ [][ClassifierNext]_vars

\* --------------------------------------- the aspect-ratio bucket on its own
\* The invocations whose bucket is resolved: a subject of every width and
\* height, one garment analysed visually only, about to classify.
ResolverInit ==
  /\ apiKey = TRUE
  /\ \E subject \in SizedSubjects :
       Analysed(subject, <<GarmentOf(1)>>, FALSE, <<<<>>>>)

ResolverSpec == ResolverInit /\ [][ClassifierNext]_vars

\* ------------------------------------- the two copies of the bucket chain
\* The bucket of both image operations: the invocations of ResolverInit,
\* and a hook at rest on which generateSizeFitTryOn is called with a subject
\* of every width and height.
BucketInit == ResolverInit \/ (Init /\ apiKey = TRUE)

SizeFitOfSubject ==
  \E subject \in SizedSubjects, bodyAnalysis \in BodyAnalyses :
    generateSizeFitTryOn(subject, ProductImage, SizeGuideImage, bodyAnalysis,
                         "M", "linen shirt, relaxed fit", "top")

BucketNext == ClassifierNext \/ SizeFitOfSubject

BucketSpec == BucketInit /\ [][BucketNext]_vars

\* ------------------------------------------------ repeated classification
\* Variant: the regular expressions keep their position between runs, so
\* the run after one that matched finds nothing.
classify_KeepsPosition(text) ==
  /\ Len(classifierRuns) < MaxRuns
  /\ classifierRuns' =
       Append(classifierRuns,
              [text |-> text,
               flags |-> IF /\ classifierRuns # <<>>
                            /\ classifierRuns[Len(classifierRuns)].flags # NoFlags
                         THEN NoFlags
                         ELSE Classifier(text)])
  /\ UNCHANGED <<envVars, argVars, runVars, appVars, sizeFit, uiVars>>

\* Lines 131-137 applied to a description text: the text in lower case and
\* the six tests on it, each with a regular expression made for this run.
classify(text) ==
  /\ Len(classifierRuns) < MaxRuns
  /\ classifierRuns' =
       Append(classifierRuns, [text |-> text, flags |-> Classifier(text)])
  /\ UNCHANGED <<envVars, argVars, runVars, appVars, sizeFit, uiVars>>

RepeatedNext == \E text \in ClassifierTexts : classify(text)

RepeatedSpec == Init /\ [][RepeatedNext]_vars

\* ------------------------------------------------------------------ claims
Invoked == pc \notin {"Idle"}
Terminal == pc \in {"Done", "Failed"}
GarmentCount == Len(initialGarments)
IssuedAnalysisCalls == Len(analysisCalls)
IssuedSynthesisCalls == Len(synthCalls)
BranchTaken == pc \notin {"Idle", "Init"}

AnalysisMessages ==
  { "Analyzing garment structure (Consolidated)...", "Processing garment...",
    "Analyzing and isolating garments (Parallel)..." }

\* C1: with at least one garment, the branch taken is Consolidated when
\* sameGarment is set (whatever the count), SingleVisualOnly for one garment
\* without the flag, ParallelIndividual for two or more without the flag;
\* one branch is taken per invocation (one analysis message, the first).
C1_StrategySelection ==
  (BranchTaken /\ GarmentCount >= 1) =>
    /\ isSameGarment => strategy = "Consolidated"
    /\ (~isSameGarment /\ GarmentCount = 1) => strategy = "SingleVisualOnly"
    /\ (~isSameGarment /\ GarmentCount >= 2) => strategy = "ParallelIndividual"
    /\ Cardinality({k \in 1..Len(progress) : progress[k] \in AnalysisMessages}) = 1
    /\ progress[1] = AnalysisMessage(strategy)

C1_Witness ==
  /\ pc = "Classifying"
  /\ isSameGarment
  /\ GarmentCount = 1
  /\ strategy = "Consolidated"

InputMissing == modelImage = Null \/ initialGarments = <<>>

\* C2 (as claimed): generateVirtualTryOn invoked without subject or without
\* garment issues no call and ends Failed with MissingInput (stated for a
\* capability that can be reached).
C2_Original ==
  (caller = "direct" /\ Invoked /\ InputMissing /\ apiKey) =>
    /\ IssuedAnalysisCalls = 0
    /\ IssuedSynthesisCalls = 0
    /\ Terminal => (pc = "Failed" /\ err = MissingInputMessage)

\* C2 (amended): it is handleGenerate that, called without subject or without
\* garment, reports MissingInput at once, does not call generateVirtualTryOn
\* and issues no call; a handleGenerate that does start an invocation has
\* both inputs.
C2_GuardInCaller ==
  caller = "handleGenerate" =>
    /\ InputMissing =>
         /\ error = MissingInputMessage
         /\ ~Invoked
         /\ IssuedAnalysisCalls = 0
         /\ IssuedSynthesisCalls = 0
         /\ progress = <<>>
    /\ Invoked => ~InputMissing

C2_Witness ==
  /\ caller = "handleGenerate"
  /\ modelImage # Null
  /\ initialGarments = <<>>
  /\ error = MissingInputMessage

Stages ==
  <<"Init", "Analyzing", "Classifying", "PromptBuilding", "Synthesizing",
    "ExtractingResult">>

StageIndex(stage) == CHOOSE k \in 1..Len(Stages) : Stages[k] = stage

\* A step that changes the stage within an invocation goes to the next stage
\* of the list, to Failed, or from the last stage to Done.
StageOrder ==
  (pc' # pc /\ pc' \notin {"Init", "Idle"}) =>
    /\ pc \in {Stages[k] : k \in 1..Len(Stages)}
    /\ \/ pc' = "Failed"
       \/ pc = "ExtractingResult" /\ pc' = "Done"
       \/ /\ pc # "ExtractingResult"
          /\ pc' = Stages[StageIndex(pc) + 1]

OneOutcome ==
  /\ pc = "Done" => (result # Null /\ err = None)
  /\ pc = "Failed" => (result = Null /\ err # None)
  /\ ~Terminal => (result = Null /\ err = None)

\* C3: an invocation passes the stages Init, Analyzing, Classifying,
\* PromptBuilding, Synthesizing, ExtractingResult in this order, never back;
\* when every capability call returns or fails it ends, Done with an image
\* or Failed with one error.
C3_LinearStages ==
  /\ [][StageOrder]_vars
  /\ []OneOutcome
  /\ (pc = "Init") ~> Terminal

C3_Witness ==
  /\ pc = "Done"
  /\ result # Null
  /\ Len(progress) > 2
  /\ strategy = "ParallelIndividual"

Parallel == strategy = "ParallelIndividual"
Consolidated == strategy = "Consolidated"
SingleVisualOnly == strategy = "SingleVisualOnly"

SomeCall(status) == \E j \in 1..Len(analysisCalls) : analysisCalls[j].st = status
EveryCall(status) == \A j \in 1..Len(analysisCalls) : analysisCalls[j].st = status

\* C4: in ParallelIndividual mode, once one analyzeText call has failed the
\* invocation is Failed with that call's error, no synthesizeImage call is
\* issued, and no garment list is built from the calls that did succeed.
C4_FailureFailsStage ==
  (Parallel /\ SomeCall("rejected")) =>
    /\ pc = "Failed"
    /\ err = CapabilityErrorMessage
    /\ result = Null
    /\ IssuedSynthesisCalls = 0
    /\ isolatedGarments = <<>>
    /\ garmentDescriptions = <<>>

C4_Witness ==
  /\ Parallel
  /\ pc = "Failed"
  /\ SomeCall("rejected")
  /\ SomeCall("fulfilled")

\* C5 (as claimed): in ParallelIndividual mode the outcome of the analysis,
\* success or failure, is delivered only when no call is outstanding.
C5_Original ==
  (Parallel /\ pc \notin {"Init", "Analyzing"}) => ~SomeCall("pending")

\* C5 (amended): success is delivered only when all N calls have returned
\* successfully; a failure is delivered with the first call that fails,
\* whatever calls are still outstanding, and those settle afterwards without
\* changing the outcome.
C5_SuccessWaitsFailureDoesNot ==
  /\ []( Parallel =>
           /\ (pc \notin {"Init", "Analyzing", "Failed"}) => EveryCall("fulfilled")
           /\ SomeCall("rejected") => pc = "Failed"
           /\ (pc = "Analyzing" /\ GarmentCount > 0) => SomeCall("pending") )
  /\ [][ (Parallel /\ pc = "Failed" /\ analysisCalls' # analysisCalls /\ pc' = pc)
           => (err' = err /\ result' = result /\ IssuedSynthesisCalls' = 0) ]_vars

C5_Witness ==
  /\ Parallel
  /\ pc = "Failed"
  /\ SomeCall("rejected")
  /\ SomeCall("pending")

\* The request of a call carries exactly this garment's image and the prompt
\* of this name.
CarriesOnly(req, garment, promptName) ==
  /\ Len(req.parts) = 2
  /\ req.parts[1].kind = "inlineData"
  /\ req.parts[1].data = garment.base64
  /\ req.parts[1].mimeType = garment.mimeType
  /\ req.parts[2].kind = "text"
  /\ req.parts[2].data = promptName

\* C6: in ParallelIndividual mode one analyzeText call is issued per garment
\* (the k-th call carries the k-th garment's image), the N calls are all
\* outstanding at the moment they are issued, and a synthesizeImage call is
\* issued only when all N have returned successfully.  (Without credential
\* no call at all is issued and the invocation fails.)
C6_FanOutAndJoin ==
  /\ []( (Parallel /\ BranchTaken) =>
           /\ \/ IssuedAnalysisCalls = GarmentCount
              \/ /\ IssuedAnalysisCalls = 0
                 /\ pc = "Failed"
                 /\ err = MissingKeyMessage
           /\ \A k \in 1..IssuedAnalysisCalls :
                CarriesOnly(analysisCalls[k].req, initialGarments[k], "individual")
           /\ IssuedSynthesisCalls > 0 =>
                (IssuedAnalysisCalls = GarmentCount /\ EveryCall("fulfilled")) )
  /\ [][ (pc = "Init" /\ pc' = "Analyzing" /\ strategy' = "ParallelIndividual")
           => /\ Len(analysisCalls') = GarmentCount
              /\ \A k \in 1..GarmentCount : analysisCalls'[k].st = "pending" ]_vars

C6_Witness ==
  /\ Parallel
  /\ GarmentCount > 1
  /\ IssuedAnalysisCalls = GarmentCount
  /\ IssuedSynthesisCalls = 1
  /\ synthCalls[1].st = "pending"

\* C7: in ParallelIndividual mode, once the join has succeeded, the k-th
\* garment is the k-th input garment with the description made from the
\* response to the call that carried its own image, in every order of
\* completion; a garment without matching result would get the empty
\* description, and the matching never fails the invocation.
C7_OwnDescription ==
  (Parallel /\ pc \notin {"Init", "Analyzing"} /\ GarmentCount > 0
     /\ IssuedAnalysisCalls = GarmentCount /\ EveryCall("fulfilled")) =>
    /\ Len(isolatedGarments) = GarmentCount
    /\ \A k \in 1..GarmentCount :
         /\ isolatedGarments[k].id = initialGarments[k].id
         /\ isolatedGarments[k].base64 = initialGarments[k].base64
         /\ CarriesOnly(analysisCalls[k].req, initialGarments[k], "individual")
         /\ isolatedGarments[k].description =
              IF analysisCalls[k].text = <<>> THEN <<"garment">>
              ELSE Trim(analysisCalls[k].text)
    /\ pc = "Failed" => err \in {TypeErrorMessage, NoImageMessage, CapabilityErrorMessage}
    /\ (pc = "Failed" /\ err = CapabilityErrorMessage) => IssuedSynthesisCalls = 1

C7_Witness ==
  /\ Parallel
  /\ pc = "Classifying"
  /\ GarmentCount > 1
  /\ initialGarments[1].id > initialGarments[2].id
  /\ isolatedGarments[1].description = <<"Shirt">>
  /\ isolatedGarments[2].description = <<"dress">>

\* The image at position j is the first inline image of these parts.
IsFirstInlineImage(parts, j) ==
  /\ j \in 1..Len(parts)
  /\ parts[j].kind = "inlineData"
  /\ \A k \in 1..Len(parts) : parts[k].kind = "inlineData" => k >= j

HasInlineImage(parts) == \E j \in 1..Len(parts) : parts[j].kind = "inlineData"

\* C8: with a subject, one garment and sameGarment unset, no analyzeText call
\* is ever issued, the garment gets the empty description, at most one
\* synthesizeImage call is issued and exactly one once a response is being
\* extracted, and a response with an image ends the invocation Done with
\* that image.
C8_SingleVisualOnly ==
  (BranchTaken /\ modelImage # Null /\ GarmentCount = 1 /\ ~isSameGarment) =>
    /\ SingleVisualOnly
    /\ IssuedAnalysisCalls = 0
    /\ pc # "Failed" =>
         /\ Len(isolatedGarments) = 1
         /\ isolatedGarments[1].description = <<>>
         /\ isolatedGarments[1].base64 = initialGarments[1].base64
    /\ IssuedSynthesisCalls <= 1
    /\ pc \in {"ExtractingResult", "Done"} =>
         (IssuedSynthesisCalls = 1 /\ synthCalls[1].st = "fulfilled")
    /\ pc = "Failed" =>
         \/ IssuedSynthesisCalls = 0 /\ err = MissingKeyMessage
         \/ /\ IssuedSynthesisCalls = 1
            /\ synthCalls[1].st = "rejected"
            /\ err = CapabilityErrorMessage
         \/ /\ IssuedSynthesisCalls = 1
            /\ synthCalls[1].st = "fulfilled"
            /\ ~HasInlineImage(synthCalls[1].parts)
            /\ err = NoImageMessage
    /\ pc = "Done" =>
         \E j \in 1..Len(synthCalls[1].parts) :
           /\ IsFirstInlineImage(synthCalls[1].parts, j)
           /\ result = <<[mimeType |-> synthCalls[1].parts[j].mimeType,
                          data |-> synthCalls[1].parts[j].data]>>

C8_Witness ==
  /\ SingleVisualOnly
  /\ modelImage # Null
  /\ pc = "Done"
  /\ IssuedSynthesisCalls = 1
  /\ Len(synthCalls[1].parts) > 1
  /\ result # Null

\* C9: in Consolidated mode at most one analyzeText call is issued, exactly
\* one as soon as the analysis is under way or over (none only when the
\* credential is missing), and it carries the image of every garment of the
\* batch, in the order of the batch, followed by the consolidation prompt.
C9_OneConsolidatedCall ==
  (Consolidated /\ BranchTaken) =>
    /\ IssuedAnalysisCalls <= 1
    /\ \/ IssuedAnalysisCalls = 1
       \/ pc = "Failed" /\ err = MissingKeyMessage /\ ~apiKey
    /\ IssuedAnalysisCalls = 1 =>
         LET parts == analysisCalls[1].req.parts
         IN /\ Len(parts) = GarmentCount + 1
            /\ \A k \in 1..GarmentCount :
                 /\ parts[k].kind = "inlineData"
                 /\ parts[k].data = initialGarments[k].base64
                 /\ parts[k].mimeType = initialGarments[k].mimeType
            /\ parts[GarmentCount + 1].kind = "text"
            /\ parts[GarmentCount + 1].data = "consolidated"

C9_Witness ==
  /\ Consolidated
  /\ GarmentCount > 1
  /\ initialGarments[1].id > initialGarments[2].id
  /\ IssuedAnalysisCalls = 1
  /\ pc = "Done"

\* d is t without its leading and trailing whitespace.
IsTrimmed(d, t) ==
  \E a \in 1..(Len(t) + 1), b \in 0..Len(t) :
    /\ d = SubSeq(t, a, b)
    /\ \A k \in 1..Len(t) : (k < a \/ k > b) => t[k] = " "
    /\ d # <<>> => (d[1] # " " /\ d[Len(d)] # " ")

\* C10: once the consolidated call has returned, every garment of the batch
\* carries one and the same description: the response text without leading
\* and trailing whitespace, or "garment" when the response has no text.
C10_SharedDescription ==
  (Consolidated /\ IssuedAnalysisCalls = 1 /\ analysisCalls[1].st = "fulfilled") =>
    LET text == analysisCalls[1].text
    IN /\ Len(isolatedGarments) = GarmentCount
       /\ \A k \in 1..GarmentCount :
            /\ isolatedGarments[k].id = initialGarments[k].id
            /\ isolatedGarments[k].description = isolatedGarments[1].description
            /\ IF text = <<>>
               THEN isolatedGarments[k].description = <<"garment">>
               ELSE IsTrimmed(isolatedGarments[k].description, text)

C10_Witness ==
  /\ Consolidated
  /\ GarmentCount > 1
  /\ pc = "Classifying"
  /\ analysisCalls[1].text = <<" ", "dress", " ">>
  /\ isolatedGarments[GarmentCount].description = <<"dress">>

RejectedCall(calls) == \E j \in 1..Len(calls) : calls[j].st = "rejected"

\* The calls one invocation of generateVirtualTryOn may issue: one
\* synthesizeImage call, and the analyzeText calls of its branch.
CallsOfTheBranch ==
  /\ IssuedSynthesisCalls <= 1
  /\ IssuedAnalysisCalls <=
       (IF Consolidated THEN 1 ELSE IF Parallel THEN GarmentCount ELSE 0)

\* The same invocation goes on: the step is not the entry of a new one.
SameInvocation == pc' \notin {"Init", "Idle"}
SameOperation == ~SizeFitEntry

\* C11: no operation of the hook retries a capability call.  No request is
\* issued twice; once a call has failed the operation is Failed with that
\* call's error, generateVirtualTryOn has issued no synthesizeImage call
\* after a failed analyzeText call, and until the caller invokes again no
\* call is added and the error stays the one reported.
C11_NoRetry ==
  /\ [](/\ CallsOfTheBranch
        /\ Len(sizeFit.calls) <= 1
        /\ (RejectedCall(analysisCalls) \/ RejectedCall(synthCalls)) =>
             (pc = "Failed" /\ err = CapabilityErrorMessage /\ result = Null)
        /\ RejectedCall(analysisCalls) => synthCalls = <<>>
        /\ RejectedCall(sizeFit.calls) =>
             (/\ sizeFit.pc = "Failed"
              /\ sizeFit.err = CapabilityErrorMessage
              /\ sizeFit.result = Null))
  /\ [][/\ (pc = "Failed" /\ SameInvocation) =>
             /\ pc' = "Failed"
             /\ err' = err
             /\ error' = error
             /\ Len(analysisCalls') = Len(analysisCalls)
             /\ Len(synthCalls') = Len(synthCalls)
        /\ (sizeFit.pc = "Failed" /\ SameOperation) => sizeFit' = sizeFit]_vars

C11_Witness ==
  /\ Parallel
  /\ pc = "Failed"
  /\ SomeCall("rejected")
  /\ SomeCall("dropped")
  /\ synthCalls = <<>>
  /\ err = CapabilityErrorMessage

Last(seq) == seq[Len(seq)]

\* The stages of the invocation whose code has started: a stage the
\* coroutine waits in has started once its calls are issued.
StagesStarted ==
  CASE pc = "Analyzing" -> 1
    [] pc = "Classifying" -> 1
    [] pc = "PromptBuilding" -> 2
    [] pc = "Synthesizing" -> IF synthCalls = <<>> THEN 3 ELSE 4
    [] pc = "ExtractingResult" -> 4
    [] pc = "Done" -> 5
    [] OTHER -> 0

\* C12 (as claimed): each of the five stages Analyzing, Classifying,
\* PromptBuilding, Synthesizing, ExtractingResult emits one progress
\* notification when it starts.
C12_Original ==
  pc \notin {"Idle", "Init", "Failed"} => Len(progress) = StagesStarted

\* The notifications of an invocation that runs to its end.
Notifications ==
  <<AnalysisMessage(strategy), "Compositing new look...", "Finalizing image...">>

\* C12: an invocation emits three notifications, in this order: the message
\* of its branch when Analyzing starts, present whenever an analyzeText call
\* is issued; "Compositing new look..." when Classifying starts, the only
\* one for classification, prompt building and synthesis, present whenever
\* the synthesizeImage call is issued; "Finalizing image..." in
\* ExtractingResult once an image was found.  The App's sink shows the
\* latest one as soon as it is emitted.
C12_ThreeNotifications ==
  /\ BranchTaken =>
       /\ Len(progress) <= 3
       /\ \A k \in 1..Len(progress) : progress[k] = Notifications[k]
  /\ pc \in {"Analyzing", "Classifying"} => Len(progress) = 1
  /\ pc \in {"PromptBuilding", "Synthesizing", "ExtractingResult"} =>
       Len(progress) = 2
  /\ pc = "Done" => Len(progress) = 3
  /\ IssuedAnalysisCalls > 0 => Len(progress) >= 1
  /\ IssuedSynthesisCalls > 0 => Len(progress) >= 2
  /\ (caller = "handleGenerate" /\ progress # <<>>) =>
       loadingMessage = Last(progress)

C12_Witness ==
  /\ pc = "Done"
  /\ caller = "handleGenerate"
  /\ progress = <<"Analyzing and isolating garments (Parallel)...",
                  "Compositing new look...", "Finalizing image...">>
  /\ loadingMessage = "Finalizing image..."

\* The invocation failed while it analysed the garments: an analyzeText call
\* failed, or the client could not be created for the calls of the branch.
FailedInAnalysis ==
  \/ RejectedCall(analysisCalls)
  \/ /\ err = MissingKeyMessage
     /\ Consolidated \/ (Parallel /\ GarmentCount > 0)

\* C13: a failed invocation has emitted the message of every stage up to the
\* one it failed in and nothing else: its last message is the one of its
\* analysis branch when it failed in Analyzing and "Compositing new look..."
\* when it failed later, "Finalizing image..." is among the messages of
\* successful invocations only, and after the failure the sink receives
\* nothing until the caller invokes again.
C13_SinkLeftAtFailure ==
  /\ [](/\ pc = "Failed" =>
             /\ progress # <<>>
             /\ Last(progress) = (IF FailedInAnalysis
                                  THEN AnalysisMessage(strategy)
                                  ELSE "Compositing new look...")
             /\ caller = "handleGenerate" => loadingMessage = Last(progress)
        /\ (\E k \in 1..Len(progress) : progress[k] = "Finalizing image...") =>
             pc = "Done")
  /\ [][(pc = "Failed" /\ SameInvocation) =>
          (progress' = progress /\ loadingMessage' = loadingMessage)]_vars

C13_Witness ==
  /\ pc = "Failed"
  /\ err = NoImageMessage
  /\ caller = "handleGenerate"
  /\ progress = <<"Processing garment...", "Compositing new look...">>
  /\ loadingMessage = "Compositing new look..."

\* The synthesizeImage call returned a response without inline image.
ResponseWithoutImage ==
  /\ IssuedSynthesisCalls = 1
  /\ synthCalls[1].st = "fulfilled"
  /\ ~HasInlineImage(synthCalls[1].parts)

\* C14: an invocation whose synthesis response holds no inline image, with
\* or without text, fails with the NoImageProduced message, which the App
\* shows; an invocation fails with this message in no other case, so a
\* failed analyzeText call and a failed synthesizeImage call give a different
\* error.
C14_NoImageProduced ==
  /\ (ResponseWithoutImage /\ pc # "ExtractingResult") =>
       /\ pc = "Failed"
       /\ err = NoImageMessage
       /\ caller = "handleGenerate" => (error = NoImageMessage /\ ~isLoading)
  /\ err = NoImageMessage => (pc = "Failed" /\ ResponseWithoutImage)
  /\ (RejectedCall(analysisCalls) \/ RejectedCall(synthCalls)) =>
       (err # NoImageMessage /\ error # NoImageMessage)

C14_Witness ==
  /\ pc = "Failed"
  /\ caller = "handleGenerate"
  /\ ResponseWithoutImage
  /\ synthCalls[1].parts = <<TextPart>>
  /\ err = NoImageMessage
  /\ error = NoImageMessage

IsImageOf(part, image) ==
  /\ part.kind = "inlineData"
  /\ part.data = image.base64
  /\ part.mimeType = image.mimeType

\* C16: an invocation issues at most one synthesizeImage call; its request
\* holds the prompt (with the description text and the aspect ratio), then
\* the subject image, then one image per garment of initialGarments in their
\* order, and nothing else, whatever the branch and whatever the order in
\* which the analysis calls returned; the aspect ratio of the subject is
\* the generation configuration.
C16_SynthesisRequest ==
  /\ IssuedSynthesisCalls <= 1
  /\ IssuedSynthesisCalls = 1 =>
       LET req == synthCalls[1].req
           subject == modelImage[1]
       IN /\ Len(req.parts) = GarmentCount + 2
          /\ req.parts[1] = PromptPart("tryOn")
          /\ req.prompt.garmentDescriptions = garmentDescriptions
          /\ req.prompt.aspectRatio = req.aspectRatio
          /\ IsImageOf(req.parts[2], subject)
          /\ \A k \in 1..GarmentCount :
               IsImageOf(req.parts[k + 2], initialGarments[k])
          /\ 9 * subject.width = 16 * subject.height => req.aspectRatio = "16:9"
          /\ subject.width = subject.height => req.aspectRatio = "1:1"

C16_Witness ==
  /\ Parallel
  /\ GarmentCount = MaxGarments
  /\ initialGarments[1].id = MaxGarments
  /\ IssuedSynthesisCalls = 1
  /\ synthCalls[1].req.parts[3].data = GarmentOf(MaxGarments).base64
  /\ synthCalls[1].req.aspectRatio = "16:9"

\* The classifier has run in this invocation.
Classified == pc \notin {"Idle", "Init", "Analyzing", "Classifying"}

NeckPlacement == "Style scarves/ties naturally around the neck."
NeckBan == "FORBIDDEN: Do NOT place any matching dress scarves/ties on the neck."

\* The conditions under which the NECKWEAR LOGIC item states this directive.
NeckwearConditions(directive) ==
  LET neckwear == synthCalls[1].req.prompt.neckwear
  IN { neckwear[k].when : k \in { j \in 1..Len(neckwear) :
                                    neckwear[j].directive = directive } }

\* C17 (as claimed): the prompt of an invocation with hasNecklace set holds
\* no directive that styles a scarf or tie at the neck.
C17_Original ==
  (IssuedSynthesisCalls = 1 /\ flags.hasNecklace) =>
    NeckwearConditions(NeckPlacement) = {}

\* C17: every prompt holds both branches of the neckwear item, the ban of
\* scarves and ties from the neck under the condition "IF the user uploaded
\* a NECKLACE" and their placement at the neck under "ELSE", each under no
\* other condition; hasNecklace sets the marker of the condition and nothing
\* else, YES when it is set and NO when it is not.
C17_NecklaceMarker ==
  IssuedSynthesisCalls = 1 =>
    LET neckwear == synthCalls[1].req.prompt.neckwear
    IN /\ NeckwearConditions(NeckPlacement) = {"ELSE"}
       /\ NeckwearConditions(NeckBan) = {"IF the user uploaded a NECKLACE"}
       /\ \A k \in 1..Len(neckwear) :
            neckwear[k].when = "IF the user uploaded a NECKLACE" =>
              neckwear[k].marker = (IF flags.hasNecklace THEN "YES" ELSE "NO")

C17_Witness ==
  /\ IssuedSynthesisCalls = 1
  /\ flags.hasNecklace
  /\ synthCalls[1].req.prompt.neckwear[2].marker = "YES"
  /\ synthCalls[1].req.prompt.neckwear[4].directive = NeckPlacement

BlackSilkDress == <<"a", " ", "black", " ", "silk", " ", "dress">>

\* C18: whatever text is classified, hasDress (hasFullBodyOutfit) implies
\* hasNewTop (replacesTop) and hasNewBottoms (replacesBottoms); the text
\* "a black silk dress" sets all three.
C18_FullBodyImpliesBoth ==
  Classified =>
    /\ flags.hasDress => (flags.hasNewTop /\ flags.hasNewBottoms)
    /\ garmentDescriptions = BlackSilkDress =>
         (flags.hasDress /\ flags.hasNewTop /\ flags.hasNewBottoms)

C18_Witness ==
  /\ Classified
  /\ Consolidated
  /\ GarmentCount = MaxDescribed
  /\ analysisCalls[1].text = BlackSilkDress
  /\ \A k \in 1..GarmentCount : isolatedGarments[k].description = BlackSilkDress
  /\ flags.hasDress /\ flags.hasNewTop /\ flags.hasNewBottoms
  /\ ~flags.hasNecklace

\* The lower-cased text that was classified contains one of the terms.
ContainsTerm(terms) ==
  TestAnywhere(terms, toLowerCase(Chars(garmentDescriptions)))

\* C19 (as claimed): each flag is set exactly when the lower-cased text
\* contains one of its terms (hasNewTop and hasNewBottoms: or when hasDress
\* is set).
C19_Original ==
  Classified =>
    /\ flags.hasDress = ContainsTerm(FullBodyTerms)
    /\ flags.hasNecklace = ContainsTerm(NecklaceTerms)
    /\ flags.hasShoes = ContainsTerm(ShoeTerms)
    /\ flags.hasNewBottoms = (flags.hasDress \/ ContainsTerm(BottomTerms))
    /\ flags.hasNewTop = (flags.hasDress \/ ContainsTerm(TopTerms))
    /\ flags.hasHat = ContainsTerm(HatTerms)

\* The words of the sample texts written with upper-case letters, in lower
\* case.
LowerCaseWord(w) ==
  CASE w = "Evening" -> "evening"
    [] w = "GOWN" -> "gown"
    [] w = "Necklace" -> "necklace"
    [] w = "Shirt" -> "shirt"
    [] OTHER -> w

\* The words of the classified text, in lower case (a token is a whole
\* word or a separator).
WordsClassified ==
  { LowerCaseWord(garmentDescriptions[k]) : k \in 1..Len(garmentDescriptions) }

\* The words of the sample texts a term for bottoms is a part of.
WordsAroundBottomTerms == { "miniskirts" }

\* C19: hasDress, hasNecklace, hasShoes, hasHat and the own test of
\* hasNewTop are set exactly when a whole word of the text, in lower case,
\* is one of the flag's terms (a plural or compound of a term sets nothing);
\* the own test of hasNewBottoms is set exactly when a word is or contains
\* one of its terms; hasNewTop and hasNewBottoms are set, too, when hasDress
\* is; upper case and surrounding words change nothing.
C19_WholeWordsButBottoms ==
  Classified =>
    /\ flags.hasDress = (WordsClassified \cap FullBodyTerms # {})
    /\ flags.hasNecklace = (WordsClassified \cap NecklaceTerms # {})
    /\ flags.hasShoes = (WordsClassified \cap ShoeTerms # {})
    /\ flags.hasHat = (WordsClassified \cap HatTerms # {})
    /\ flags.hasNewTop =
         (flags.hasDress \/ WordsClassified \cap TopTerms # {})
    /\ flags.hasNewBottoms =
         (\/ flags.hasDress
          \/ WordsClassified \cap (BottomTerms \cup WordsAroundBottomTerms) # {})

C19_Witness ==
  /\ Classified
  /\ garmentDescriptions = <<"Evening", " ", "GOWN", ",", " ", "shoes">>
  /\ flags.hasDress
  /\ ~flags.hasShoes

\* The descriptions of the garments that are not empty, in garment order.
NonEmptyDescriptions ==
  SelectSeq([k \in 1..Len(isolatedGarments) |-> isolatedGarments[k].description],
            LAMBDA d : d # <<>>)

\* The first k of these descriptions with ", " between them.
RECURSIVE JoinedUpTo(_, _)
JoinedUpTo(ds, k) ==
  IF k = 0 THEN <<>>
  ELSE IF k = 1 THEN ds[1]
  ELSE JoinedUpTo(ds, k - 1) \o <<",", " ">> \o ds[k]

\* C20: the text that is classified is the description of the first garment
\* when sameGarment is set, and otherwise the non-empty descriptions of the
\* garments, in garment order, with ", " between them; a garment analysed
\* visually only has the empty description, so the text is empty and no
\* flag is set.
C20_ClassifiedText ==
  Classified =>
    /\ isSameGarment => garmentDescriptions = isolatedGarments[1].description
    /\ ~isSameGarment =>
         garmentDescriptions =
           JoinedUpTo(NonEmptyDescriptions, Len(NonEmptyDescriptions))
    /\ SingleVisualOnly =>
         /\ garmentDescriptions = <<>>
         /\ \A f \in DOMAIN flags : ~flags[f]

C20_Witness ==
  /\ Classified
  /\ Parallel
  /\ GarmentCount = 2
  /\ isolatedGarments[1].description = <<>>
  /\ isolatedGarments[2].description = <<"Shirt">>
  /\ garmentDescriptions = <<"Shirt">>
  /\ flags.hasNewTop

IssuedPrompt == synthCalls[1].req.prompt
ActionClauses == { IssuedPrompt.top, IssuedPrompt.bottoms, IssuedPrompt.outfit }

ReplaceTop == "REPLACE the subject's top."
KeepTop == "KEEP the subject's top."
ReplaceBottoms == "REPLACE the subject's bottoms."
KeepBottoms == "KEEP the subject's bottoms."
FullBodyOverride ==
  "Ensure the garment is worn as a full-body outfit, completely replacing the original outfit. Do not render as a vest."

\* C22: the prompt of the synthesis call has the REPLACE-top clause exactly
\* when replacesTop is set and the KEEP-top clause exactly when it is not,
\* likewise for the bottoms, and the full-body override clause exactly when
\* hasFullBodyOutfit is set; with a full-body outfit it has no KEEP clause.
C22_ReplaceOrKeep ==
  synthCalls # <<>> =>
    /\ ReplaceTop \in ActionClauses <=> flags.hasNewTop
    /\ KeepTop \in ActionClauses <=> ~flags.hasNewTop
    /\ ReplaceBottoms \in ActionClauses <=> flags.hasNewBottoms
    /\ KeepBottoms \in ActionClauses <=> ~flags.hasNewBottoms
    /\ FullBodyOverride \in ActionClauses <=> flags.hasDress
    /\ flags.hasDress => ActionClauses \cap {KeepTop, KeepBottoms} = {}

C22_Witness ==
  /\ synthCalls # <<>>
  /\ garmentDescriptions = <<"miniskirts">>
  /\ ~flags.hasNewTop
  /\ flags.hasNewBottoms
  /\ ActionClauses = {KeepTop, ReplaceBottoms, "Ensure seamless integration."}

\* The subject of the invocation and the bucket of its synthesis call.
Subject == modelImage[1]
ResolvedBucket == synthCalls[1].req.aspectRatio

\* The canonical ratios in priority order, as numerator and denominator.
Buckets ==
  <<[name |-> "16:9", a |-> 16, b |-> 9], [name |-> "9:16", a |-> 9, b |-> 16],
    [name |-> "4:3", a |-> 4, b |-> 3], [name |-> "3:4", a |-> 3, b |-> 4]>>

\* Ten times |width / height - a / b|, times b * height.
TenfoldDistance(width, height, k) ==
  10 * Abs(Buckets[k].b * width - Buckets[k].a * height)

\* |width / height - a / b| < 0.1 in exact arithmetic.
StrictlyWithin(width, height, k) ==
  TenfoldDistance(width, height, k) < Buckets[k].b * height

\* The first bucket in priority order within 0.1 of width / height, 1:1
\* when there is none or a dimension is zero.
FirstStrictlyWithin(width, height) ==
  IF width = 0 \/ height = 0 \/ \A k \in 1..4 : ~StrictlyWithin(width, height, k)
  THEN "1:1"
  ELSE Buckets[CHOOSE k \in 1..4 :
                 /\ StrictlyWithin(width, height, k)
                 /\ \A j \in 1..(k - 1) : ~StrictlyWithin(width, height, j)].name

\* C23: the bucket of the synthesis call is the first in the order 16:9,
\* 9:16, 4:3, 3:4 whose canonical ratio differs from width / height by less
\* than 0.1, and 1:1 when none does or a dimension is zero; 1920 x 1080
\* gives 16:9, 1080 x 1920 gives 9:16, 800 x 800 and 0 x 0 give 1:1.
C23_Original ==
  synthCalls # <<>> =>
    /\ ResolvedBucket = FirstStrictlyWithin(Subject.width, Subject.height)
    /\ Subject.width = 1920 /\ Subject.height = 1080 => ResolvedBucket = "16:9"
    /\ Subject.width = 1080 /\ Subject.height = 1920 => ResolvedBucket = "9:16"
    /\ Subject.width = Subject.height => ResolvedBucket = "1:1"

\* Bucket j is strictly nearer to width / height than bucket k.
StrictlyNearer(width, height, j, k) ==
  Buckets[k].b * Abs(Buckets[j].b * width - Buckets[j].a * height)
    < Buckets[j].b * Abs(Buckets[k].b * width - Buckets[k].a * height)

BucketIndex(name) == CHOOSE k \in 1..4 : Buckets[k].name = name

\* C24 as stated: the bucket of the synthesis call is never one that
\* another bucket within 0.1 of width / height is strictly nearer than.
C24_Original ==
  synthCalls # <<>> /\ ResolvedBucket # "1:1" =>
    \A j \in 1..4 :
      StrictlyWithin(Subject.width, Subject.height, j) =>
        ~StrictlyNearer(Subject.width, Subject.height, j,
                        BucketIndex(ResolvedBucket))

\* width / height is above 21/32, the middle of 9/16 and 3/4, and at
\* most 53/80, one tenth above 9/16.
NearerThreeFour(width, height) ==
  32 * width > 21 * height /\ 80 * width <= 53 * height

\* C24: the bucket of the synthesis call, unless it is 1:1, is the
\* canonical ratio nearest to width / height, except that 9:16 is returned
\* for every ratio above 21/32 up to 53/80, where 3:4 is strictly nearer.
C24_NearestButPortrait ==
  synthCalls # <<>> /\ ResolvedBucket # "1:1" =>
    IF NearerThreeFour(Subject.width, Subject.height)
    THEN /\ ResolvedBucket = "9:16"
         /\ StrictlyNearer(Subject.width, Subject.height, BucketIndex("3:4"),
                           BucketIndex("9:16"))
    ELSE \A j \in 1..4 :
           ~StrictlyNearer(Subject.width, Subject.height, j,
                           BucketIndex(ResolvedBucket))

C24_Witness ==
  /\ synthCalls # <<>>
  /\ Subject.width = 23
  /\ Subject.height = 35
  /\ ResolvedBucket = "9:16"
  /\ StrictlyWithin(23, 35, BucketIndex("3:4"))
  /\ StrictlyNearer(23, 35, BucketIndex("3:4"), BucketIndex("9:16"))

\* recommendSize has returned: its arguments, the payload of the
\* capability's response, and the record returned.
Recommended == sizeFit.op = "recommendSize" /\ sizeFit.pc = "Done"
AvailableSizes == sizeFit.calls[1].req.parts[1].data.availableSizes
Payload == sizeFit.calls[1].response[1].value[1]
Recommendation == sizeFit.result[1]

\* C25: the record recommendSize returns is the payload of the capability's
\* response: the same base_size, try_on_sizes, skipped_sizes and reason, in
\* the same order, whatever the available sizes are.
C25_PayloadAsIs ==
  Recommended =>
    /\ sizeFit.result # Null
    /\ Recommendation = Payload
    /\ Recommendation.base_size = Payload.base_size
    /\ Recommendation.try_on_sizes = Payload.try_on_sizes
    /\ Recommendation.skipped_sizes = Payload.skipped_sizes
    /\ Recommendation.reason = Payload.reason

C25_Witness ==
  /\ Recommended
  /\ AvailableSizes = <<"S", "M", "L">>
  /\ Recommendation.try_on_sizes = <<"M", "L">>
  /\ Recommendation.skipped_sizes = <<"S">>
  /\ Recommendation.base_size = "M"

Range(seq) == { seq[k] : k \in DOMAIN seq }
SizesOf(rec) == Range(rec.try_on_sizes) \cup Range(rec.skipped_sizes)

\* C26 as stated: the sizes to try and the skipped sizes of every record
\* recommendSize returns are among the available sizes.
C26_Original ==
  Recommended => SizesOf(Recommendation) \subseteq Range(AvailableSizes)

\* C26: recommendSize does not compare the sizes with the available ones:
\* the sizes of the record returned are those of the payload, so they are
\* among the available sizes exactly when those of the payload are.
C26_AsThePayload ==
  Recommended =>
    /\ SizesOf(Recommendation) = SizesOf(Payload)
    /\ SizesOf(Recommendation) \subseteq Range(AvailableSizes)
         <=> SizesOf(Payload) \subseteq Range(AvailableSizes)

C26_Witness ==
  /\ Recommended
  /\ AvailableSizes = <<"S", "M", "L">>
  /\ Payload.try_on_sizes = <<"XL">>
  /\ "XL" \in SizesOf(Recommendation)
  /\ ~(SizesOf(Recommendation) \subseteq Range(AvailableSizes))

\* analyzeBody has settled; the keys of the BodyAnalysis record.
BodyAnalysed == sizeFit.op = "analyzeBody" /\ sizeFit.pc \in {"Done", "Failed"}
BodyAnalysisKeys ==
  { "estimated_height_in", "bust_or_chest_in", "waist_in", "hip_in", "build",
    "posture_notes", "confidence_0_to_1" }
BodyResponse == sizeFit.calls[1].response[1]
HasAllKeys(r) == r.text /\ r.json /\ DOMAIN r.value[1] = BodyAnalysisKeys

\* The operation issued its one call, or none because the credential is
\* missing.
OneCallOrNoClient(request) ==
  \/ /\ Len(sizeFit.calls) = 1
     /\ sizeFit.calls[1].req = request
  \/ /\ sizeFit.calls = <<>>
     /\ ~apiKey
     /\ sizeFit.pc = "Failed"
     /\ sizeFit.err = MissingKeyMessage

\* C27 as stated: analyzeBody issues one call; it returns a record only for
\* a response whose text parses to a value with the seven keys, and fails
\* for every other response.
C27_Original ==
  BodyAnalysed =>
    /\ \E subject \in Subjects : OneCallOrNoClient(BodyAnalysisRequest(subject))
    /\ sizeFit.calls # <<>> /\ sizeFit.calls[1].st = "fulfilled" =>
         IF HasAllKeys(BodyResponse)
         THEN sizeFit.pc = "Done" /\ sizeFit.result = Some(BodyResponse.value[1])
         ELSE sizeFit.pc = "Failed"

\* generateSizeFitTryOn has settled; its call and the parts of the request.
SizeFitted ==
  sizeFit.op = "generateSizeFitTryOn" /\ sizeFit.pc \in {"Done", "Failed"}
SizeFitCall == sizeFit.calls[1]
SizeFitParts == SizeFitCall.req.parts

\* The bucket of each subject of Subjects.
BucketOf(subject) ==
  IF subject.width = 1920 /\ subject.height = 1080 THEN "16:9" ELSE "1:1"

\* C28: generateSizeFitTryOn issues one call (none without a credential)
\* whose request holds the subject image, the garment image, the size-guide
\* image and the prompt, in this order, and the aspect-ratio bucket of the
\* subject; it returns the first inline image of the response and fails
\* with "Failed to generate image." when the response has none.
C28_SizeFitCall ==
  SizeFitted =>
    /\ \/ Len(sizeFit.calls) = 1
       \/ /\ sizeFit.calls = <<>>
          /\ ~apiKey
          /\ sizeFit.pc = "Failed"
          /\ sizeFit.err = MissingKeyMessage
    /\ sizeFit.calls # <<>> =>
         /\ Len(SizeFitParts) = 4
         /\ \E subject \in Subjects :
              /\ IsImageOf(SizeFitParts[1], subject)
              /\ SizeFitCall.req.aspectRatio = BucketOf(subject)
         /\ IsImageOf(SizeFitParts[2], ProductImage)
         /\ IsImageOf(SizeFitParts[3], SizeGuideImage)
         /\ SizeFitParts[4].kind = "text"
         /\ SizeFitCall.st = "fulfilled" =>
              IF HasInlineImage(SizeFitCall.response)
              THEN /\ sizeFit.pc = "Done"
                   /\ \E j \in 1..Len(SizeFitCall.response) :
                        /\ IsFirstInlineImage(SizeFitCall.response, j)
                        /\ sizeFit.result = Some(DataUrl(SizeFitCall.response[j]))
              ELSE /\ sizeFit.pc = "Failed"
                   /\ sizeFit.result = Null
                   /\ sizeFit.err = GenerateImageFailedMessage
    /\ sizeFit.pc = "Done" => SizeFitCall.st = "fulfilled"

C28_Witness ==
  /\ SizeFitted
  /\ sizeFit.pc = "Done"
  /\ SizeFitCall.req.aspectRatio = "16:9"
  /\ SizeFitCall.response = <<ImagePart(2), ImagePart(1)>>
  /\ sizeFit.result = Some(DataUrl(ImagePart(2)))

\* No operation of the hook is running.
Quiet == pc \in {"Idle", "Done", "Failed"} /\ sizeFit.pc # "Awaiting"

ClientAsCredential == ClientAvailable <=> apiKey

\* Every request issued is the one made from the arguments of its
\* invocation (and, for the synthesis, the descriptions made from the
\* responses to it).
RequestsFromArguments ==
  /\ \A i \in DOMAIN analysisCalls :
       analysisCalls[i].req \in
         {ConsolidatedRequest(initialGarments)}
           \cup { IndividualRequest(initialGarments[k]) :
                    k \in DOMAIN initialGarments }
  /\ synthCalls # <<>> =>
       synthCalls[1].req =
         SynthesisRequest(modelImage, isolatedGarments,
                          GarmentDescriptions(isolatedGarments, isSameGarment),
                          Classifier(GarmentDescriptions(isolatedGarments,
                                                         isSameGarment)))
  /\ sizeFit.calls # <<>> =>
       sizeFit.calls[1].req \in
         CASE sizeFit.op = "analyzeBody" ->
                { BodyAnalysisRequest(s) : s \in Subjects }
           [] sizeFit.op = "recommendSize" ->
                { SizeRecommendationRequest(b, p, z) :
                    b \in BodyAnalyses, p \in ProductInfos, z \in SizeLists }
           [] OTHER ->
                { SizeFitRequest(s, ProductImage, SizeGuideImage, b, t, p, o) :
                    s \in Subjects, b \in BodyAnalyses, t \in TargetSizes,
                    p \in ProductInfos, o \in OutfitTypes }

\* An invocation that starts finds nothing of the one before: no branch, no
\* message, no call, no description, no flag, no result, no error.
FreshAtEntry ==
  /\ pc' = "Init" /\ pc # "Init" =>
       /\ strategy' = None
       /\ progress' = <<>>
       /\ analysisCalls' = <<>>
       /\ isolatedGarments' = <<>>
       /\ garmentDescriptions' = <<>>
       /\ flags' = NoFlags
       /\ synthCalls' = <<>>
       /\ result' = Null
       /\ err' = None
  /\ sizeFit.pc # "Awaiting" /\ sizeFit' # sizeFit =>
       /\ Len(sizeFit'.progress) = 1
       /\ sizeFit'.result = Null
       /\ Len(sizeFit'.calls) <= 1
       /\ \A i \in DOMAIN sizeFit'.calls : sizeFit'.calls[i].st = "pending"

GarmentFields == {"id", "base64", "mimeType"}

\* The caller's garments are as they were uploaded.
AsUploaded ==
  \A k \in DOMAIN initialGarments :
    /\ DOMAIN initialGarments[k] = GarmentFields
    /\ initialGarments[k] = GarmentOf(initialGarments[k].id)

\* C30: from its entry to its end, on success and on failure and in every
\* branch, an invocation of generateVirtualTryOn leaves the caller's subject
\* and garments as they are: a garment keeps its fields and stays without
\* description, and the descriptions are on the copies in isolatedGarments.
C30_InputsUntouched ==
  /\ [](AsUploaded)
  /\ [][SameInvocation =>
          /\ initialGarments' = initialGarments
          /\ modelImage' = modelImage]_vars

C30_Witness ==
  /\ pc = "Done"
  /\ strategy = "Consolidated"
  /\ Len(initialGarments) = 2
  /\ AsUploaded
  /\ \A k \in DOMAIN isolatedGarments :
       /\ isolatedGarments[k].id = initialGarments[k].id
       /\ isolatedGarments[k].description = <<"silk", " ", "dress">>

\* ------------------------------------------------------------------- C31
\* The first use of the capability is the analysis where the strategy
\* issues analyzeText calls, the synthesis otherwise.
AnalysisUsesCapability == Consolidated \/ (Parallel /\ GarmentCount > 0)

\* C31: with the credential missing no client is ever built and no request
\* is issued by any of the four operations; generateVirtualTryOn never
\* reaches its synthesis response and fails with the missing-credential
\* error at its first use of the capability (in the analysis when the
\* strategy calls analyzeText, else at the synthesis, unless reading the
\* missing subject failed the invocation before any use); analyzeBody,
\* recommendSize and generateSizeFitTryOn fail with it right after their
\* progress message, with no result.
C31_MissingCredential ==
  ~apiKey =>
    /\ ~ai
    /\ analysisCalls = <<>>
    /\ synthCalls = <<>>
    /\ sizeFit.calls = <<>>
    /\ pc \notin {"ExtractingResult", "Done"}
    /\ sizeFit.pc \in {"Idle", "Failed"}
    /\ (Invoked /\ AnalysisUsesCapability) =>
         (pc = "Failed" /\ err = MissingKeyMessage /\ isolatedGarments = <<>>)
    /\ pc = "Failed" =>
         /\ result = Null
         /\ err = IF modelImage = Null /\ ~AnalysisUsesCapability
                  THEN TypeErrorMessage
                  ELSE MissingKeyMessage
    /\ sizeFit.pc = "Failed" =>
         /\ sizeFit.err = MissingKeyMessage
         /\ sizeFit.result = Null
         /\ Len(sizeFit.progress) = 1

C31_Witness ==
  /\ ~apiKey
  /\ SingleVisualOnly
  /\ pc = "Failed"
  /\ err = MissingKeyMessage
  /\ synthCalls = <<>>
  /\ Len(progress) >= 2

C31_OperationWitness ==
  /\ ~apiKey
  /\ sizeFit.op = "recommendSize"
  /\ sizeFit.pc = "Failed"
  /\ sizeFit.err = MissingKeyMessage

\* ------------------------------------------------------------------- C36
\* The analyzeText response the description of garment k was produced from.
DescribedFrom(k) == IF Consolidated THEN analysisCalls[1].text ELSE analysisCalls[k].text

\* The analysis of a Consolidated or ParallelIndividual invocation has
\* produced the descriptions from its responses.
Described ==
  /\ Consolidated \/ Parallel
  /\ pc \notin {"Idle", "Init", "Analyzing"}
  /\ analysisCalls # <<>>
  /\ EveryCall("fulfilled")

\* C36: every description produced from an analyzeText response in
\* Consolidated or ParallelIndividual mode is non-empty: it is the response
\* text without leading and trailing whitespace, or "garment" when the
\* response has no text.
C36_Original ==
  Described =>
    \A k \in 1..Len(isolatedGarments) :
      /\ isolatedGarments[k].description # <<>>
      /\ isolatedGarments[k].description =
           IF DescribedFrom(k) = <<>> THEN <<"garment">> ELSE Trim(DescribedFrom(k))

\* ------------------------------------------------------------------- C37
\* image is the first inline image of these parts, as a data URL.
FirstInlineImageOf(parts, image) ==
  \E j \in 1..Len(parts) :
    /\ IsFirstInlineImage(parts, j)
    /\ image = DataUrl(parts[j])

\* The response of the synthesis call has been extracted.
Extracted ==
  /\ Terminal
  /\ synthCalls # <<>>
  /\ synthCalls[1].st = "fulfilled"

\* C37: a synthesis response that holds an inline image makes the
\* invocation succeed with the first inline image in the order of the
\* parts, whether text parts precede it or other images follow it, and
\* handleGenerate shows that image; the same holds of the response of
\* generateSizeFitTryOn; neither operation succeeds with anything else.
C37_FirstInlineImage ==
  /\ (Extracted /\ HasInlineImage(synthCalls[1].parts)) =>
       /\ pc = "Done"
       /\ result # Null
       /\ FirstInlineImageOf(synthCalls[1].parts, result[1])
       /\ caller = "handleGenerate" => finalImage = result
  /\ pc = "Done" => (Extracted /\ HasInlineImage(synthCalls[1].parts))
  /\ (SizeFitted /\ sizeFit.calls # <<>> /\ SizeFitCall.st = "fulfilled"
        /\ HasInlineImage(SizeFitCall.response)) =>
       /\ sizeFit.pc = "Done"
       /\ sizeFit.result # Null
       /\ FirstInlineImageOf(SizeFitCall.response, sizeFit.result[1])
  /\ (SizeFitted /\ sizeFit.pc = "Done") =>
       (SizeFitCall.st = "fulfilled" /\ HasInlineImage(SizeFitCall.response))

C37_Witness ==
  /\ pc = "Done"
  /\ caller = "handleGenerate"
  /\ synthCalls[1].parts = <<TextPart, ImagePart(2)>>
  /\ finalImage = Some(DataUrl(ImagePart(2)))

C37_FollowedWitness ==
  /\ SizeFitted
  /\ sizeFit.pc = "Done"
  /\ SizeFitCall.response = <<ImagePart(2), ImagePart(1)>>
  /\ sizeFit.result = Some(DataUrl(ImagePart(2)))

\* ------------------------------------------------------------------- C38
\* The subject whose image is the first part of the size-fit request.
SizeFitSubjects ==
  IF sizeFit.op = "generateSizeFitTryOn" /\ sizeFit.calls # <<>>
  THEN { s \in SizedSubjects : IsImageOf(SizeFitParts[1], s) }
  ELSE {}

\* C38: for every width and height of the subject the two image operations
\* send the same bucket: the bucket of a synthesis call of
\* generateVirtualTryOn is the one the chain of generateSizeFitTryOn gives
\* for the subject, and the bucket of a call of generateSizeFitTryOn is the
\* one the chain of generateVirtualTryOn gives for it.
C38_SameBucket ==
  /\ synthCalls # <<>> =>
       ResolvedBucket = SizeFitAspectRatio(Subject.width, Subject.height)
  /\ \A s \in SizeFitSubjects :
       SizeFitCall.req.aspectRatio = AspectRatio(s.width, s.height)

C38_Witness ==
  /\ \E s \in SizeFitSubjects : s.width = 23 /\ s.height = 35
  /\ SizeFitCall.req.aspectRatio = "9:16"

C38_TryOnWitness ==
  /\ synthCalls # <<>>
  /\ Subject.width = 1080
  /\ Subject.height = 1920
  /\ ResolvedBucket = "9:16"

\* =================================================== the App and its dropzones
\* The files of a selection or drop: image files the browser decodes, files
\* of an image type it cannot decode, files of another type.
FileKinds == {"image", "broken", "other"}

\* Selections handed to a dropzone on its own: one file or two, of every
\* kind that matters to the filter and to the order.
Selections ==
  { <<"image">>, <<"broken">>, <<"other">>, <<"image", "image">>,
    <<"other", "image">>, <<"image", "other">>, <<"other", "other">>,
    <<"image", "broken">> }

\* Selections a user of the App makes: a photo for the subject or the size
\* guide, one or two photos for the garments.
AppSelections(zone) ==
  IF zone = "garment" THEN { <<"image">>, <<"image", "image">> } ELSE { <<"image">> }

Zones == {"model", "garment", "sizeGuide"}

\* The onFileUpload prop of the dropzone of a zone as rendered now: the
\* handler, and for handleGarmentUpload the isSizeFitMode its closure holds.
OnFileUpload(zone) ==
  CASE zone = "model" -> [handler |-> "handleModelUpload", isSizeFitMode |-> FALSE]
    [] zone = "garment" ->
         [handler |-> "handleGarmentUpload", isSizeFitMode |-> app.isSizeFitMode]
    [] OTHER -> [handler |-> "handleSizeGuideUpload", isSizeFitMode |-> FALSE]

\* The UploadedImage made of file i of selection k; its id is unique.
Uploaded(k, i) == <<k, i>>

\* Recommendations recommendSize may return to the App: a best fit among
\* the sizes to try on, and no best fit (base_size null, written "").
Recommendations ==
  { [base_size |-> "M", try_on_sizes |-> <<"M", "L">>,
     skipped_sizes |-> <<"S">>, reason |-> "M is the true size"],
    [base_size |-> "", try_on_sizes |-> <<"S">>,
     skipped_sizes |-> <<"M", "L">>, reason |-> "between sizes"] }

\* Every operation in flight has had the result it will deliver cleared
\* from the App since it started.
ResultCleared(ops) == [k \in 1..Len(ops) |-> [ops[k] EXCEPT !.cleared = TRUE]]

\* Lines 29-35.
handleModelUpload(images) ==
  /\ app' = [app EXCEPT !.modelImage = Some(images[1])]
  /\ finalImage' = Null
  /\ error' = None
  /\ pending' = ResultCleared(pending)

\* Lines 37-46, with the isSizeFitMode of the render the handler is from.
handleGarmentUpload(images, sizeFitMode) ==
  /\ app' = [app EXCEPT !.garments = IF sizeFitMode
                                     THEN SubSeq(images, 1, 1)
                                     ELSE app.garments \o images]
  /\ finalImage' = Null
  /\ error' = None
  /\ pending' = ResultCleared(pending)

\* Lines 48-52.
handleSizeGuideUpload(images) ==
  /\ app' = [app EXCEPT !.sizeGuide = Some(images[1])]
  /\ UNCHANGED <<finalImage, error, pending>>

\* The files of selection k whose promise resolved to an UploadedImage, in
\* the order of the selection (processedFiles without the nulls).
ValidFiles(files, k) ==
  LET idx == SelectSeq([i \in 1..Len(files) |-> i], LAMBDA i : files[i].st = "loaded")
  IN [j \in 1..Len(idx) |-> Uploaded(k, idx[j])]

\* FileDropzone lines 53-59, once Promise.all has resolved: onFileUpload of
\* the render the selection was made in, or the alert.
Processed(ups, k) ==
  LET validFiles == ValidFiles(ups[k].files, k)
      onFileUpload == ups[k].onFileUpload
  IN IF validFiles # <<>>
     THEN /\ uploads' = [ups EXCEPT ![k].st = "uploaded", ![k].delivered = validFiles]
          /\ CASE onFileUpload.handler = "handleModelUpload" ->
                    handleModelUpload(validFiles)
               [] onFileUpload.handler = "handleGarmentUpload" ->
                    handleGarmentUpload(validFiles, onFileUpload.isSizeFitMode)
               [] OTHER -> handleSizeGuideUpload(validFiles)
     ELSE /\ uploads' = [ups EXCEPT ![k].st = "alerted"]
          /\ UNCHANGED <<app, finalImage, error, pending>>

\* Promise.all of selection k after one of its promises settled: it
\* resolves when no file is being read or decoded any more.
PromiseAll(ups, k) ==
  IF \A i \in 1..Len(ups[k].files) : ups[k].files[i].st \in {"null", "loaded"}
  THEN Processed(ups, k)
  ELSE /\ uploads' = ups
       /\ UNCHANGED <<app, finalImage, error, pending>>

\* FileDropzone lines 26-52: a selection or drop of these files on the
\* dropzone of a zone.  Files of another type resolve to null at once, the
\* others are handed to a FileReader.
handleFileChange(zone, kinds) ==
  /\ Len(uploads) < MaxSelections
  /\ zone = "sizeGuide" => app.isSizeFitMode
  /\ LET files == [i \in 1..Len(kinds) |->
                     [kind |-> kinds[i],
                      st |-> IF kinds[i] = "other" THEN "null" ELSE "reading"]]
         selection == [zone |-> zone, onFileUpload |-> OnFileUpload(zone),
                       files |-> files, st |-> "processing", delivered |-> <<>>]
     IN PromiseAll(Append(uploads, selection), Len(uploads) + 1)
  /\ UNCHANGED <<envVars, argVars, runVars, sizeFit, classifierRuns>>
  /\ UNCHANGED <<isLoading, loadingMessage, started>>

\* reader.onload of file i of selection k (lines 19, 34-49): the file is
\* handed to an Image.
ReaderLoaded(k, i) ==
  /\ k \in 1..Len(uploads)
  /\ uploads[k].st = "processing"
  /\ i \in 1..Len(uploads[k].files)
  /\ uploads[k].files[i].st = "reading"
  /\ uploads' = [uploads EXCEPT ![k].files[i].st = "decoding"]
  /\ UNCHANGED <<envVars, argVars, runVars, sizeFit, classifierRuns>>
  /\ UNCHANGED <<appVars, app, pending, started>>

\* reader.onerror of file i of selection k (line 20): fileToBase64 rejects,
\* so does Promise.all, and handleFileChange ends there.
ReaderError(k, i) ==
  /\ k \in 1..Len(uploads)
  /\ uploads[k].st = "processing"
  /\ i \in 1..Len(uploads[k].files)
  /\ uploads[k].files[i].st = "reading"
  /\ uploads' = [uploads EXCEPT ![k].files[i].st = "failed", ![k].st = "rejected"]
  /\ UNCHANGED <<envVars, argVars, runVars, sizeFit, classifierRuns>>
  /\ UNCHANGED <<appVars, app, pending, started>>

\* img.onload of file i of selection k (lines 38-48); an image the browser
\* cannot decode never fires it, and no other event is listened to.
ImageLoaded(k, i) ==
  /\ k \in 1..Len(uploads)
  /\ uploads[k].st = "processing"
  /\ i \in 1..Len(uploads[k].files)
  /\ uploads[k].files[i].st = "decoding"
  /\ uploads[k].files[i].kind = "image"
  /\ PromiseAll([uploads EXCEPT ![k].files[i].st = "loaded"], k)
  /\ UNCHANGED <<envVars, argVars, runVars, sizeFit, classifierRuns>>
  /\ UNCHANGED <<isLoading, loadingMessage, started>>

\* ---------------------------------------------------- the handlers of the App
\* The last progress message before the first await of generateVirtualTryOn.
FirstAwaitMessage(strat) ==
  IF strat = "SingleVisualOnly" THEN "Compositing new look..." ELSE AnalysisMessage(strat)

\* The checkbox of lines 193-204, set to newMode.
setIsSizeFitMode(newMode) ==
  /\ app.modelImage # Null
  /\ newMode # app.isSizeFitMode
  /\ app' = [app EXCEPT !.isSizeFitMode = newMode,
                        !.garments = IF newMode /\ Len(@) > 1
                                     THEN SubSeq(@, 1, 1)
                                     ELSE @]
  /\ UNCHANGED <<envVars, argVars, runVars, sizeFit, classifierRuns>>
  /\ UNCHANGED <<appVars, pending, started, uploads>>

\* Lines 54-56, from the button of a garment shown.
handleRemoveGarment(id) ==
  /\ \E k \in 1..Len(app.garments) : app.garments[k] = id
  /\ app' = [app EXCEPT !.garments = SelectSeq(@, LAMBDA g : g # id)]
  /\ UNCHANGED <<envVars, argVars, runVars, sizeFit, classifierRuns>>
  /\ UNCHANGED <<appVars, pending, started, uploads>>

\* The textarea of lines 338-344.
setProductInfo(text) ==
  /\ app.isSizeFitMode
  /\ text # app.productInfo
  /\ app' = [app EXCEPT !.productInfo = text]
  /\ UNCHANGED <<envVars, argVars, runVars, sizeFit, classifierRuns>>
  /\ UNCHANGED <<appVars, pending, started, uploads>>

\* The select of lines 361-368: its options are "" and the try_on_sizes of
\* the recommendation shown.
setSelectedSize(size) ==
  /\ app.isSizeFitMode
  /\ app.sizeRecommendation # Null
  /\ size \in {""} \cup Range(app.sizeRecommendation[1].try_on_sizes)
  /\ size # app.selectedSize
  /\ app' = [app EXCEPT !.selectedSize = size]
  /\ UNCHANGED <<envVars, argVars, runVars, sizeFit, classifierRuns>>
  /\ UNCHANGED <<appVars, pending, started, uploads>>

\* A handler calls an operation of the hook and awaits it: setIsLoading(true),
\* setError(null), and the progress message the operation emits before its
\* first await.
Await(handler, operation, args, message) ==
  /\ started < MaxStarted
  /\ started' = started + 1
  /\ pending' = Append(pending, [n |-> started + 1, handler |-> handler,
                                 operation |-> operation, args |-> args,
                                 cleared |-> FALSE])
  /\ isLoading' = TRUE
  /\ error' = None
  /\ loadingMessage' = message
  /\ UNCHANGED <<envVars, argVars, runVars, sizeFit, classifierRuns>>
  /\ UNCHANGED <<app, uploads>>

\* Lines 58-62, from "Analyze Body Measurements" (disabled while isLoading)
\* or from "Re-analyze" (never disabled).
handleAnalyzeBody ==
  /\ app.isSizeFitMode
  /\ app.bodyAnalysis = Null => ~isLoading
  /\ app.modelImage # Null
  /\ Await("handleAnalyzeBody", "analyzeBody", [modelImage |-> app.modelImage[1]],
           <<"Analyzing body measurements...">>)
  /\ UNCHANGED finalImage

\* Lines 81-87, from "Get Size Recommendation".
handleRecommendSize ==
  /\ app.isSizeFitMode
  /\ app.sizeGuide # Null
  /\ ~isLoading
  /\ app.bodyAnalysis # Null /\ app.productInfo # ""
  /\ Await("handleRecommendSize", "recommendSize",
           [bodyAnalysis |-> app.bodyAnalysis[1], productInfo |-> app.productInfo,
            availableSizes |-> <<"XS", "S", "M", "L", "XL">>],
           <<"Recommending size...">>)
  /\ UNCHANGED finalImage

\* Lines 98-135, from the Generate button (enabled when canGenerate): the
\* size-fit workflow when the mode, the size guide, the analysis and a
\* selected size are there, the standard workflow otherwise.
Generate ==
  /\ app.modelImage # Null /\ app.garments # <<>> /\ ~isLoading
  /\ finalImage' = Null
  /\ IF /\ app.isSizeFitMode
        /\ app.sizeGuide # Null
        /\ app.bodyAnalysis # Null
        /\ app.selectedSize # ""
     THEN Await("handleGenerate", "generateSizeFitTryOn",
                [modelImage |-> app.modelImage[1], garment |-> app.garments[1],
                 sizeGuide |-> app.sizeGuide[1], bodyAnalysis |-> app.bodyAnalysis[1],
                 targetSize |-> app.selectedSize, productInfo |-> app.productInfo,
                 outfitType |-> "Dress"],
                <<"Generating try-on for size ", app.selectedSize, "...">>)
     ELSE Await("handleGenerate", "generateVirtualTryOn",
                [modelImage |-> app.modelImage[1], garments |-> app.garments,
                 isSameGarment |-> isSameGarment],
                FirstAwaitMessage(Strategy(app.garments, isSameGarment)))

\* Lines 145-156: every input but selectedSize and isSameGarment is reset;
\* the operations in flight are left to settle.
handleReset ==
  /\ app' = [AppIdle EXCEPT !.selectedSize = app.selectedSize]
  /\ finalImage' = Null
  /\ error' = None
  /\ isLoading' = FALSE
  /\ pending' = ResultCleared(pending)
  /\ UNCHANGED <<envVars, argVars, runVars, sizeFit, classifierRuns>>
  /\ UNCHANGED <<loadingMessage, started, uploads>>

\* pending without its k-th operation.
Settled(k) == SubSeq(pending, 1, k - 1) \o SubSeq(pending, k + 1, Len(pending))

\* The errors generateVirtualTryOn and generateSizeFitTryOn reject with.
GenerateErrors(operation) ==
  IF operation = "generateVirtualTryOn"
  THEN {NoImageMessage, CapabilityErrorMessage}
  ELSE {GenerateImageFailedMessage, CapabilityErrorMessage}

\* Lines 63-70: analyzeBody settles, with an analysis or an error.
AnalyzeBodySettles(k, outcome) ==
  /\ k \in 1..Len(pending)
  /\ pending[k].handler = "handleAnalyzeBody"
  /\ IF outcome # Null
     THEN /\ app' = [app EXCEPT !.bodyAnalysis = outcome]
          /\ error' = error
     ELSE /\ app' = app
          /\ error' = "Body analysis failed."
  /\ isLoading' = FALSE
  /\ pending' = Settled(k)
  /\ UNCHANGED <<envVars, argVars, runVars, sizeFit, classifierRuns>>
  /\ UNCHANGED <<loadingMessage, finalImage, started, uploads>>

\* Lines 86-95: recommendSize settles, with a recommendation or an error.
RecommendSizeSettles(k, outcome) ==
  /\ k \in 1..Len(pending)
  /\ pending[k].handler = "handleRecommendSize"
  /\ IF outcome # Null
     THEN /\ app' = [app EXCEPT !.sizeRecommendation = outcome,
                                !.selectedSize = IF outcome[1].base_size # ""
                                                 THEN outcome[1].base_size
                                                 ELSE @]
          /\ error' = error
     ELSE /\ app' = app
          /\ error' = "Size recommendation failed."
  /\ isLoading' = FALSE
  /\ pending' = Settled(k)
  /\ UNCHANGED <<envVars, argVars, runVars, sizeFit, classifierRuns>>
  /\ UNCHANGED <<loadingMessage, finalImage, started, uploads>>

\* Lines 122, 134-142: the operation handleGenerate awaits resolves with its
\* image; setFinalImage, then the finally block.
GenerateResolves(k) ==
  /\ k \in 1..Len(pending)
  /\ pending[k].handler = "handleGenerate"
  /\ finalImage' = Some(DataUrl(ImagePart(pending[k].n)))
  /\ isLoading' = FALSE
  /\ pending' = Settled(k)
  /\ UNCHANGED <<envVars, argVars, runVars, sizeFit, classifierRuns>>
  /\ UNCHANGED <<loadingMessage, error, app, started, uploads>>

\* Lines 137-142: the operation handleGenerate awaits rejects; setError with
\* the message, then the finally block.
GenerateRejects(k, message) ==
  /\ k \in 1..Len(pending)
  /\ pending[k].handler = "handleGenerate"
  /\ message \in GenerateErrors(pending[k].operation)
  /\ error' = message
  /\ isLoading' = FALSE
  /\ pending' = Settled(k)
  /\ UNCHANGED <<envVars, argVars, runVars, sizeFit, classifierRuns>>
  /\ UNCHANGED <<loadingMessage, finalImage, app, started, uploads>>

\* ---------------------------------------------- the uploads, specification
\* Selections on the dropzones of the App, the events of their files, and
\* what changes the garment list and the mode meanwhile.
FileEvent ==
  \E k \in 1..MaxSelections, i \in 1..2 : ReaderLoaded(k, i) \/ ImageLoaded(k, i)

UploadNext ==
  \/ \E zone \in Zones : \E kinds \in AppSelections(zone) : handleFileChange(zone, kinds)
  \/ FileEvent
  \/ \E newMode \in BOOLEAN : setIsSizeFitMode(newMode)
  \/ \E id \in Range(app.garments) : handleRemoveGarment(id)
  \/ handleReset

AppInit == Init /\ apiKey = TRUE

UploadSpec == AppInit /\ [][UploadNext]_vars

\* ------------------------------------------------------ a dropzone on its own
\* Selections and drops of every kind on the dropzone of the garments, and
\* the events of their files, failed reads included.
DropzoneNext ==
  \/ \E kinds \in Selections : handleFileChange("garment", kinds)
  \/ \E k \in 1..MaxSelections, i \in 1..2 :
       ReaderLoaded(k, i) \/ ReaderError(k, i) \/ ImageLoaded(k, i)

DropzoneSpec == AppInit /\ [][DropzoneNext]_vars

\* --------------------------------------------------- a session, specification
\* A selection of one image on the dropzone of a zone that has ended with
\* onFileUpload.
Delivered(zone, k) ==
  [zone |-> zone,
   onFileUpload |-> [handler |-> CASE zone = "model" -> "handleModelUpload"
                                   [] zone = "garment" -> "handleGarmentUpload"
                                   [] OTHER -> "handleSizeGuideUpload",
                     isSizeFitMode |-> FALSE],
   files |-> <<[kind |-> "image", st |-> "loaded"]>>,
   st |-> "uploaded", delivered |-> <<Uploaded(k, 1)>>]

\* The App of a session under way: a subject and a garment uploaded, the
\* Size & Fit mode switched on, then a size guide uploaded; no operation
\* started yet.
SessionInit ==
  /\ NoOperationYet
  /\ apiKey = TRUE
  /\ pending = <<>>
  /\ started = 0
  /\ app = [AppIdle EXCEPT !.modelImage = Some(Uploaded(1, 1)),
                           !.garments = <<Uploaded(2, 1)>>,
                           !.isSizeFitMode = TRUE,
                           !.sizeGuide = Some(Uploaded(3, 1))]
  /\ uploads = <<Delivered("model", 1), Delivered("garment", 2),
                 Delivered("sizeGuide", 3)>>

UserStep ==
  \/ \E newMode \in BOOLEAN : setIsSizeFitMode(newMode)
  \/ \E id \in Range(app.garments) : handleRemoveGarment(id)
  \/ \E text \in {""} \cup ProductInfos : setProductInfo(text)
  \/ \E size \in {"", "S", "M", "L"} : setSelectedSize(size)
  \/ handleAnalyzeBody
  \/ handleRecommendSize
  \/ Generate
  \/ handleReset

OperationSettles ==
  \E k \in 1..MaxStarted :
    \/ \E outcome \in {Null} \cup {Some(b) : b \in BodyAnalyses} :
         AnalyzeBodySettles(k, outcome)
    \/ \E outcome \in {Null} \cup {Some(r) : r \in Recommendations} :
         RecommendSizeSettles(k, outcome)
    \/ GenerateResolves(k)
    \/ \E message \in {NoImageMessage, GenerateImageFailedMessage, CapabilityErrorMessage} :
         GenerateRejects(k, message)

AppNext == UserStep \/ OperationSettles

AppSpec == SessionInit /\ [][AppNext]_vars

\* ------------------------------------------------------------------- C32
\* C32: whenever the Size & Fit mode is on, the garment list of the App
\* holds at most one garment, after every sequence of uploads, removals and
\* mode toggles, also when the files of an upload were being processed
\* while the mode was switched on.
C32_Original == app.isSizeFitMode => Len(app.garments) <= 1

\* ------------------------------------------------------------------- C39
\* The files of selection k whose type is an image type, in the order of
\* the selection, as the UploadedImages they make.
ImageFiles(k) ==
  LET files == uploads[k].files
      idx == SelectSeq([i \in 1..Len(files) |-> i], LAMBDA i : files[i].kind # "other")
  IN [j \in 1..Len(idx) |-> Uploaded(k, idx[j])]

\* C39: a selection whose handleFileChange has ended has ended in exactly
\* one of two ways: onFileUpload was called with the image files in the
\* order of the selection, or, none of the files being an image, the alert
\* was shown; onFileUpload is never called with an empty list.
C39_Original ==
  \A k \in 1..Len(uploads) :
    uploads[k].st # "processing" =>
      /\ uploads[k].st \in {"uploaded", "alerted"}
      /\ uploads[k].st = "uploaded" =>
           (uploads[k].delivered # <<>> /\ uploads[k].delivered = ImageFiles(k))
      /\ uploads[k].st = "alerted" => ImageFiles(k) = <<>>

\* A selection of an image the browser cannot decode stays in processing
\* for ever: its file is decoded and no event is left.
C39_NeverEnds ==
  \E k \in 1..Len(uploads) :
    /\ uploads[k].st = "processing"
    /\ \A i \in 1..Len(uploads[k].files) :
         \/ uploads[k].files[i].st \in {"null", "loaded"}
         \/ uploads[k].files[i].st = "decoding" /\ uploads[k].files[i].kind = "broken"

\* ------------------------------------------------------------------- C33
\* Operation k of pending settles in the step: it is no longer awaited after
\* it.
Settles(k) == \A j \in 1..Len(pending') : pending'[j].n # pending[k].n

\* The operations handleGenerate awaits whose result Start Over or an upload
\* has cleared since they started.
Abandoned ==
  {k \in 1..Len(pending) : pending[k].handler = "handleGenerate" /\ pending[k].cleared}

\* C33: the result of an abandoned invocation is ignored: after Start Over
\* finalImage stays null until a Generate started afterwards succeeds, and
\* the settling of a Generate that was in flight at Start Over changes none
\* of finalImage, error and isLoading.
C33_Original ==
  [][\A k \in Abandoned :
       Settles(k) => /\ finalImage' = finalImage
                     /\ error' = error
                     /\ isLoading' = isLoading]_vars

\* ------------------------------------------------------------------- C34
\* C34: isLoading is true in every state in which an operation started from
\* the UI is still in flight.
C34_Original == pending # <<>> => isLoading

\* ------------------------------------------------------------------- C35
\* The step starts generateSizeFitTryOn.
StartsSizeFitTryOn ==
  /\ started' = started + 1
  /\ pending'[Len(pending')].operation = "generateSizeFitTryOn"

\* C35: generateSizeFitTryOn is started only with a targetSize that is one
\* of the try_on_sizes of the size recommendation the App holds.
C35_Original ==
  [][StartsSizeFitTryOn =>
       /\ app.sizeRecommendation # Null
       /\ pending'[Len(pending')].args.targetSize
            \in Range(app.sizeRecommendation[1].try_on_sizes)]_vars

====
